------------------------ MODULE VMCIContext_proofs ------------------------
(***************************************************************************)
(* Proofs about the life and the mailbox of a context, for any threads,    *)
(* contexts, ids and sizes, and stacks of activation records of any depth. *)
(*                                                                         *)
(* Prompt: who sleeps in poll is woken and the notify flag is set.  It     *)
(* holds of every behaviour.                                               *)
(*                                                                         *)
(* References: the count of a context and the one thread that frees it.    *)
(* It holds until VMCIContext_Get takes another context in the memory for  *)
(* the one it has missed.  Where freed memory is not handed out again      *)
(* (~ReuseMemory) that never happens, and Events says where an event is on *)
(* its way.  Where ids are not given out again either (~ReuseIds), Permits *)
(* says whom a dispatch under way is allowed to reach.                     *)
(*                                                                         *)
(* In between, a step is described three times, each time by less: what it *)
(* does to the stack, list and slot (the lemmas named after the actions),  *)
(* which Kind of step it is to the other contexts, and what an invariant   *)
(* needs of the kind (Orderly, Queues, Grows).                             *)
(***************************************************************************)
EXTENDS VMCIContext, FiniteSetTheorems, TLAPS

-----------------------------------------------------------------------------
(* Types: what a thread does on a file, dispatches and frees *)

OnPc == FilePc \cup {"clear", "copy", "put"}
AnyId == Ids \cup {NoId}
Powers == {"none", "restricted"}

\* A message and an activation record; that ids are those of guests and that the
\* counts are natural is another matter.
Messages == [from : Contexts, priv : Powers \cup {Event}, size : Int]
Dispatches == [pc : DispatchPc, to : AnyId, msg : Messages, ctx : Contexts \cup {NoContext}]
Frees == [pc : FreePc, ctx : Contexts, todo : SUBSET AnyId]
FileCalls == [pc : OnPc, ctx : Contexts]

\* Past VMCIContext_Get a dispatch has a context in hand.
Missing == {"check_missed", "get_missed"}
Targeting == {"checked", "enqueue", "release"}
Frames ==
  {r \in Dispatches \cup Frees \cup FileCalls :
     r.pc \in Missing \cup Targeting => r.ctx \in Contexts}

Slots == [allocated : BOOLEAN, cid : AnyId, refCount : Int,
          priv : Powers, notifierArray : SUBSET Ids,
          datagramQueue : Seq(Messages), pendingDatagrams : Nat, datagramQueueSize : Int,
          notify : {"null", "mapped", "garbage"}, notifyPage : BOOLEAN,
          flag : BOOLEAN, pinned : Int]

\* What is under another record waits for it.
Waits(r) == r.pc \in {"get", "fire"}

Typed ==
  /\ contextList \in Seq(Contexts)
  /\ context \in [Contexts -> Slots]
  /\ \A c \in Contexts : context[c].pendingDatagrams = Len(context[c].datagramQueue)
  /\ open \subseteq Contexts
  /\ stack \in [Threads -> Seq(Frames)]
  /\ \A t \in Threads : \A n \in 1..(Len(stack[t]) - 1) : Waits(stack[t][n])

\* A record is what its pc says.
LEMMA Kinds ==
  ASSUME NEW r \in Frames
  PROVE  /\ r.pc \in DispatchPc => r \in Dispatches
         /\ r.pc \in FreePc => r \in Frees
         /\ r.pc \in OnPc => r \in FileCalls
         /\ r.pc \in DispatchPc \cup FreePc \cup OnPc
         /\ r.pc \in Missing \cup Targeting => r.ctx \in Contexts
<1>1. r \in Dispatches \/ r \in Frees \/ r \in FileCalls
  BY DEF Frames
<1>2. /\ r \in Dispatches => r.pc \in DispatchPc
      /\ r \in Frees => r.pc \in FreePc
      /\ r \in FileCalls => r.pc \in OnPc
  BY DEF Dispatches, Frees, FileCalls
<1>3. DispatchPc \cap FreePc = {} /\ DispatchPc \cap OnPc = {} /\ FreePc \cap OnPc = {}
  BY DEF DispatchPc, FreePc, OnPc, FilePc
<1>4. r.pc \in Missing \cup Targeting => r.ctx \in Contexts
  BY DEF Frames
<1> QED
  BY <1>1, <1>2, <1>3, <1>4

\* The records that the actions write.
LEMMA OnIs ==
  ASSUME NEW c \in Contexts, NEW pc \in OnPc
  PROVE  On(c, pc) \in Frames /\ On(c, pc).pc = pc /\ On(c, pc).ctx = c
  BY DEF On, Frames, FileCalls, OnPc, FilePc, Missing, Targeting

LEMMA FreeingIs ==
  ASSUME NEW c \in Contexts
  PROVE  /\ Freeing(c) \in Frames /\ Freeing(c).pc = "scan"
         /\ Freeing(c).ctx = c /\ Freeing(c).todo = {}
  BY DEF Freeing, Frames, Frees, FreePc, Missing, Targeting

LEMMA DispatchIs ==
  ASSUME NEW r \in Dispatches, NEW pc \in DispatchPc, NEW c \in Contexts \cup {NoContext},
         pc \in Missing \cup Targeting => c \in Contexts
  PROVE  LET q == [r EXCEPT !.pc = pc, !.ctx = c]
         IN  /\ q \in Frames /\ q \in Dispatches /\ q.pc = pc /\ q.ctx = c
             /\ q.to = r.to /\ q.msg = r.msg
  BY DEF Frames, Dispatches

LEMMA DispatchOn ==
  ASSUME NEW r \in Dispatches, NEW pc \in DispatchPc, r.ctx \in Contexts
  PROVE  LET q == [r EXCEPT !.pc = pc]
         IN  /\ q \in Frames /\ q \in Dispatches /\ q.pc = pc /\ q.ctx = r.ctx
             /\ q.to = r.to /\ q.msg = r.msg
  BY DEF Frames, Dispatches

LEMMA DispatchingIs ==
  ASSUME NEW i \in AnyId, NEW m \in Messages
  PROVE  LET q == Dispatching(i, m)
         IN  /\ q \in Frames /\ q \in Dispatches /\ q.pc \in {"get", "check"}
             /\ q.pc = "get" => context[m.from].cid = i /\ ~IsEvent(m)
             /\ q.to = i /\ q.msg = m /\ q.ctx = NoContext
  BY DEF Dispatching, Frames, Dispatches, DispatchPc, Missing, Targeting

-----------------------------------------------------------------------------
(* Stacks: a step leaves what is below the top as it is *)

\* What Return keeps.
Kept(t) == IF stack[t] = <<>> THEN 0 ELSE Len(stack[t]) - 1

LEMMA Tops ==
  ASSUME Typed, NEW t \in Threads
  PROVE  /\ stack[t] \in Seq(Frames) /\ Len(stack[t]) \in Nat /\ Kept(t) \in Nat
         /\ stack[t] # <<>> =>
              /\ Top(t) = stack[t][Kept(t) + 1] /\ Top(t) \in Frames
              /\ Len(stack[t]) = Kept(t) + 1
         /\ stack[t] = <<>> => Len(stack[t]) = 0 /\ Kept(t) = 0
  BY DEF Typed, Kept, Top, Last

\* Where a thread is, and what its record is then.
LEMMA Where ==
  ASSUME Typed, NEW t \in Threads, NEW pc, At(t, pc)
  PROVE  /\ stack[t] # <<>> /\ ~Idle(t) /\ Top(t).pc = pc /\ Top(t) \in Frames
         /\ pc \in DispatchPc => Top(t) \in Dispatches
         /\ pc \in FreePc => Top(t) \in Frees /\ Top(t).ctx \in Contexts
         /\ pc \in OnPc => Top(t) \in FileCalls /\ Top(t).ctx \in Contexts
         /\ pc \in Missing \cup Targeting => Top(t).ctx \in Contexts
<1>1. stack[t] # <<>> /\ Top(t).pc = pc /\ Top(t) \in Frames
  BY Tops DEF At, Top
<1>2. \A r \in Frees \cup FileCalls : r.ctx \in Contexts
  BY DEF Frees, FileCalls
<1> QED
  BY <1>1, <1>2, Kinds DEF Idle

LEMMA ReturnIs ==
  ASSUME Typed, NEW t \in Threads
  PROVE  /\ Return(t) \in Seq(Frames) /\ Len(Return(t)) = Kept(t)
         /\ \A n \in 1..Kept(t) : Return(t)[n] = stack[t][n]
<1>1. stack[t] \in Seq(Frames)
  BY Tops
<1>2. CASE stack[t] = <<>>
  <2>1. Return(t) = <<>>
    BY <1>2 DEF Return, Front
  <2> QED
    BY <1>2, <2>1 DEF Kept
<1>3. CASE stack[t] # <<>>
  BY <1>1, <1>3 DEF Return, Front, Kept
<1> QED
  BY <1>2, <1>3

LEMMA GotoIs ==
  ASSUME Typed, NEW t \in Threads, NEW r \in Frames
  PROVE  /\ Goto(t, r) \in Seq(Frames) /\ Len(Goto(t, r)) = Kept(t) + 1
         /\ Goto(t, r)[Kept(t) + 1] = r
         /\ \A n \in 1..Kept(t) : Goto(t, r)[n] = stack[t][n]
  BY ReturnIs, Tops DEF Goto

Pushed(t, r, q) == Append(Goto(t, r), q)

LEMMA PushIs ==
  ASSUME Typed, NEW t \in Threads, NEW r \in Frames, NEW q \in Frames
  PROVE  /\ Pushed(t, r, q) \in Seq(Frames) /\ Len(Pushed(t, r, q)) = Kept(t) + 2
         /\ Pushed(t, r, q)[Kept(t) + 1] = r /\ Pushed(t, r, q)[Kept(t) + 2] = q
         /\ \A n \in 1..Kept(t) : Pushed(t, r, q)[n] = stack[t][n]
  BY GotoIs, Tops DEF Pushed

\* A thread's record is replaced by none, one or two.
Moves(t) ==
  /\ stack' \in [Threads -> Seq(Frames)]
  /\ \A u \in Threads : u # t => stack'[u] = stack[u]
  /\ \A n \in 1..Kept(t) : stack'[t][n] = stack[t][n]
Pops(t) == Moves(t) /\ Len(stack'[t]) = Kept(t)
Turns(t, r) == Moves(t) /\ Len(stack'[t]) = Kept(t) + 1 /\ stack'[t][Kept(t) + 1] = r
Pushes(t, r, q) ==
  /\ Moves(t) /\ Len(stack'[t]) = Kept(t) + 2
  /\ stack'[t][Kept(t) + 1] = r /\ stack'[t][Kept(t) + 2] = q

LEMMA MovesIs ==
  ASSUME Typed, NEW t \in Threads
  PROVE  /\ stack' = [stack EXCEPT ![t] = Return(t)] => Pops(t)
         /\ \A r \in Frames : stack' = [stack EXCEPT ![t] = Goto(t, r)] => Turns(t, r)
         /\ \A r \in Frames : stack[t] = <<>> /\ stack' = [stack EXCEPT ![t] = <<r>>] => Turns(t, r)
         /\ \A r \in Frames : stack' = [stack EXCEPT ![t] = Append(Return(t), r)] => Turns(t, r)
         /\ \A r, q \in Frames :
              stack' = [stack EXCEPT ![t] = Append(Goto(t, r), q)] => Pushes(t, r, q)
<1>1. stack \in [Threads -> Seq(Frames)]
  BY DEF Typed
<1>2. stack' = [stack EXCEPT ![t] = Return(t)] => Pops(t)
  BY <1>1, ReturnIs DEF Pops, Moves
<1>3. ASSUME NEW r \in Frames, stack' = [stack EXCEPT ![t] = Goto(t, r)] PROVE Turns(t, r)
  BY <1>1, <1>3, GotoIs DEF Turns, Moves
<1>4. ASSUME NEW r \in Frames, stack[t] = <<>>, stack' = [stack EXCEPT ![t] = <<r>>]
      PROVE  Turns(t, r)
  <2>1. <<r>> \in Seq(Frames) /\ Len(<<r>>) = 1 /\ <<r>>[1] = r
    OBVIOUS
  <2>2. Kept(t) = 0
    BY <1>4 DEF Kept
  <2> QED
    BY <1>1, <1>4, <2>1, <2>2 DEF Turns, Moves
<1>5. ASSUME NEW r \in Frames, stack' = [stack EXCEPT ![t] = Append(Return(t), r)]
      PROVE  Turns(t, r)
  BY <1>3, <1>5 DEF Goto
<1>6. ASSUME NEW r \in Frames, NEW q \in Frames, stack' = [stack EXCEPT ![t] = Append(Goto(t, r), q)]
      PROVE  Pushes(t, r, q)
  <2>1. stack'[t] = Pushed(t, r, q) /\ \A u \in Threads : u # t => stack'[u] = stack[u]
    BY <1>1, <1>6 DEF Pushed
  <2>2. /\ stack'[t] \in Seq(Frames) /\ Len(stack'[t]) = Kept(t) + 2
        /\ stack'[t][Kept(t) + 1] = r /\ stack'[t][Kept(t) + 2] = q
        /\ \A n \in 1..Kept(t) : stack'[t][n] = stack[t][n]
    BY <2>1, PushIs
  <2>3. stack' \in [Threads -> Seq(Frames)]
    BY <1>1, <1>6, <2>1, <2>2
  <2> QED
    BY <2>1, <2>2, <2>3 DEF Pushes, Moves
<1> QED
  BY <1>2, <1>3, <1>4, <1>5, <1>6

\* The records that a step can leave a thread with keep the stacks typed.
Settles(t) ==
  \/ Pops(t)
  \/ \E r \in Frames : Turns(t, r)
  \/ \E r, q \in Frames : Pushes(t, r, q) /\ Waits(r)

StackTyped ==
  /\ stack \in [Threads -> Seq(Frames)]
  /\ \A t \in Threads : \A n \in 1..(Len(stack[t]) - 1) : Waits(stack[t][n])

LEMMA StackFits ==
  ASSUME Typed, NEW t \in Threads, Settles(t)
  PROVE  StackTyped'
<1>1. Moves(t) /\ Kept(t) \in Nat
  BY Tops DEF Settles, Pops, Turns, Pushes
<1>2. \A n \in 1..Kept(t) : Waits(stack[t][n])
  BY Tops DEF Typed, Kept
<1>3. \/ Len(stack'[t]) \in {Kept(t), Kept(t) + 1}
      \/ Len(stack'[t]) = Kept(t) + 2 /\ Waits(stack'[t][Kept(t) + 1])
  BY DEF Settles, Pops, Turns, Pushes
<1>4. \A n \in 1..(Len(stack'[t]) - 1) : Waits(stack'[t][n])
  <2> TAKE n \in 1..(Len(stack'[t]) - 1)
  <2>1. n \in 1..Kept(t) \/ (n = Kept(t) + 1 /\ Waits(stack'[t][Kept(t) + 1]))
    BY <1>1, <1>3
  <2> QED
    BY <1>1, <1>2, <2>1 DEF Moves
<1>5. ASSUME NEW u \in Threads PROVE \A n \in 1..(Len(stack'[u]) - 1) : Waits(stack'[u][n])
  BY <1>1, <1>4, <1>5 DEF Moves, Typed
<1> QED
  BY <1>1, <1>5 DEF Moves, StackTyped, Waits

\* Where the step leaves the thread.
LEMMA TopAfter ==
  ASSUME Typed, NEW t \in Threads
  PROVE  /\ Pops(t) => stack'[t] = <<>> \/ (stack'[t] # <<>> /\ Waits(Top(t)'))
         /\ \A r \in Frames : Turns(t, r) => stack'[t] # <<>> /\ Top(t)' = r
         /\ \A r, q \in Frames : Pushes(t, r, q) => stack'[t] # <<>> /\ Top(t)' = q
<1>1. Kept(t) \in Nat /\ Len(stack[t]) \in Nat
  BY Tops
<1>2. ASSUME Pops(t), stack'[t] # <<>> PROVE Waits(Top(t)')
  <2>1. stack'[t] \in Seq(Frames) /\ Len(stack'[t]) = Kept(t) /\ Kept(t) # 0
    BY <1>1, <1>2 DEF Pops, Moves
  <2>2. Top(t)' = stack[t][Kept(t)]
    BY <1>1, <1>2, <2>1 DEF Pops, Moves, Top, Last
  <2>4. stack[t] # <<>>
    BY <2>1 DEF Kept
  <2>5. Kept(t) = Len(stack[t]) - 1
    BY <2>4 DEF Kept
  <2>3. Kept(t) \in 1..(Len(stack[t]) - 1)
    <3>1. Kept(t) # 0 /\ Kept(t) \in Nat
      BY <1>1, <2>1
    <3>2. Kept(t) \in 1..Kept(t)
      BY <3>1
    <3> QED
      BY <3>2, <2>5, Zenon
  <2> QED
    BY <2>2, <2>3 DEF Typed
<1>3. ASSUME NEW r \in Frames, Turns(t, r) PROVE stack'[t] # <<>> /\ Top(t)' = r
  BY <1>1, <1>3 DEF Turns, Moves, Top, Last
<1>4. ASSUME NEW r \in Frames, NEW q \in Frames, Pushes(t, r, q)
      PROVE  stack'[t] # <<>> /\ Top(t)' = q
  BY <1>1, <1>4 DEF Pushes, Moves, Top, Last
<1> QED
  BY <1>2, <1>3, <1>4

-----------------------------------------------------------------------------
(* Steps: what each does to the stack, the list and a slot *)

\* A step is of one slot.
SlotsTyped ==
  /\ context \in [Contexts -> Slots]
  /\ \A c \in Contexts : context[c].pendingDatagrams = Len(context[c].datagramQueue)
Only(c) == \A d \in Contexts : d # c => context'[d] = context[d]

LEMMA Typing ==
  ASSUME SlotsTyped', StackTyped', contextList' \in Seq(Contexts), open' \subseteq Contexts
  PROVE  Typed'
  BY DEF SlotsTyped, StackTyped, Typed

\* The calls of a thread that has none in progress, and the steps on files.
LEMMA TurnsTyped ==
  ASSUME Typed, NEW t \in Threads, Settles(t), UNCHANGED <<contextList, context>>,
         open' \subseteq Contexts
  PROVE  Typed'
<1>1. SlotsTyped' /\ StackTyped'
  BY StackFits DEF Typed, SlotsTyped
<1> QED
  BY <1>1, Typing DEF Typed

LEMMA TurnsSettle ==
  ASSUME NEW t \in Threads
  PROVE  /\ Pops(t) => Settles(t)
         /\ \A r \in Frames : Turns(t, r) => Settles(t)
         /\ \A r, q \in Frames : Pushes(t, r, q) /\ Waits(r) => Settles(t)
  BY DEF Settles

LEMMA PollIs ==
  ASSUME Typed, NEW t \in Threads, NEW c \in Contexts, Poll(t, c)
  PROVE  /\ Typed' /\ Idle(t) /\ Turns(t, On(c, "poll"))
         /\ UNCHANGED <<contextList, context, open>>
<1>1. On(c, "poll") \in Frames
  BY OnIs DEF OnPc, FilePc
<1>2. Turns(t, On(c, "poll"))
  BY <1>1, MovesIs DEF Poll, Idle
<1> QED
  BY <1>1, <1>2, TurnsSettle, TurnsTyped DEF Poll, Typed

LEMMA SetupNotifyIs ==
  ASSUME Typed, NEW t \in Threads, NEW c \in Contexts, SetupNotify(t, c)
  PROVE  /\ Typed' /\ Idle(t) /\ Turns(t, On(c, "map"))
         /\ UNCHANGED <<contextList, context, open>>
<1>1. On(c, "map") \in Frames
  BY OnIs DEF OnPc, FilePc
<1>2. Turns(t, On(c, "map"))
  BY <1>1, MovesIs DEF SetupNotify, Idle
<1> QED
  BY <1>1, <1>2, TurnsSettle, TurnsTyped DEF SetupNotify, Typed

LEMMA PollCheckIs ==
  ASSUME Typed, NEW t \in Threads, PollCheck(t)
  PROVE  /\ Typed' /\ At(t, "poll") /\ Top(t).ctx \in Contexts
         /\ UNCHANGED <<contextList, context, open>>
         /\ \/ Pops(t)
            \/ /\ context[Top(t).ctx].pendingDatagrams = 0
               /\ Turns(t, On(Top(t).ctx, "asleep"))
<1>1. At(t, "poll") /\ UNCHANGED <<contextList, context, open>>
  BY DEF PollCheck
<1>2. Top(t).ctx \in Contexts /\ On(Top(t).ctx, "asleep") \in Frames
  BY <1>1, Where, OnIs DEF OnPc, FilePc
<1>3. context[Top(t).ctx].pendingDatagrams \in Nat
  BY <1>2 DEF Typed, Slots
<1>4. CASE context[Top(t).ctx].pendingDatagrams > 0
  <2>1. Pops(t)
    BY <1>4, MovesIs DEF PollCheck
  <2> QED
    BY <1>1, <1>2, <2>1, TurnsSettle, TurnsTyped DEF Typed
<1>5. CASE context[Top(t).ctx].pendingDatagrams = 0
  <2>1. Turns(t, On(Top(t).ctx, "asleep"))
    <3>1. stack' = [stack EXCEPT ![t] = Goto(t, On(Top(t).ctx, "asleep"))]
      BY <1>5 DEF PollCheck
    <3> QED
      BY <1>2, <3>1, MovesIs
  <2> QED
    BY <1>1, <1>2, <1>5, <2>1, TurnsSettle, TurnsTyped DEF Typed
<1> QED
  BY <1>3, <1>4, <1>5

LEMMA PollInterruptedIs ==
  ASSUME Typed, NEW t \in Threads, PollInterrupted(t)
  PROVE  Typed' /\ At(t, "asleep") /\ Pops(t) /\ UNCHANGED <<contextList, context, open>>
  BY MovesIs, TurnsSettle, TurnsTyped DEF PollInterrupted, Typed

LEMMA CheckPendingIs ==
  ASSUME Typed, NEW t \in Threads, CheckPending(t)
  PROVE  /\ Typed' /\ At(t, "peek") /\ Top(t).ctx \in Contexts
         /\ UNCHANGED <<contextList, context, open>>
         /\ \/ context[Top(t).ctx].pendingDatagrams = 0 /\ Pops(t)
            \/ Turns(t, On(Top(t).ctx, "signal"))
<1>1. At(t, "peek") /\ UNCHANGED <<contextList, context, open>>
  BY DEF CheckPending
<1>2. Top(t).ctx \in Contexts /\ On(Top(t).ctx, "signal") \in Frames
  BY <1>1, Where, OnIs DEF OnPc, FilePc
<1>3. context[Top(t).ctx].pendingDatagrams \in Nat
  BY <1>2 DEF Typed, Slots
<1>4. CASE context[Top(t).ctx].pendingDatagrams = 0
  <2>1. Pops(t)
    <3>1. stack' = [stack EXCEPT ![t] = Return(t)]
      BY <1>4 DEF CheckPending
    <3> QED
      BY <3>1, MovesIs
  <2> QED
    BY <1>1, <1>2, <1>4, <2>1, TurnsSettle, TurnsTyped DEF Typed
<1>5. CASE context[Top(t).ctx].pendingDatagrams > 0
  <2>1. Turns(t, On(Top(t).ctx, "signal"))
    BY <1>2, <1>5, MovesIs DEF CheckPending
  <2> QED
    BY <1>1, <1>2, <2>1, TurnsSettle, TurnsTyped DEF Typed
<1> QED
  BY <1>3, <1>4, <1>5

LEMMA InitDoneIs ==
  ASSUME Typed, NEW t \in Threads, InitDone(t)
  PROVE  /\ Typed' /\ At(t, "copy") /\ Top(t).ctx \in Contexts /\ Pops(t)
         /\ UNCHANGED <<contextList, context>> /\ open' = open \cup {Top(t).ctx}
<1>1. At(t, "copy") /\ UNCHANGED <<contextList, context>> /\ open' = open \cup {Top(t).ctx}
  BY DEF InitDone
<1>2. Top(t).ctx \in Contexts
  BY <1>1, Where DEF OnPc
<1>3. Pops(t)
  BY MovesIs DEF InitDone
<1> QED
  BY <1>1, <1>2, <1>3, TurnsSettle, TurnsTyped DEF Typed

\* A slot whose life, id, privileges, count and queue stay.
Unmoved(d) ==
  /\ context'[d].cid = context[d].cid /\ context'[d].priv = context[d].priv
  /\ context'[d].allocated = context[d].allocated
  /\ context'[d].refCount = context[d].refCount
  /\ context'[d].datagramQueue = context[d].datagramQueue

LEMMA SlotIs ==
  ASSUME Typed, NEW c \in Contexts
  PROVE  /\ context[c] \in Slots /\ context[c].pendingDatagrams = Len(context[c].datagramQueue)
         /\ context[c].refCount \in Int /\ context[c].pendingDatagrams \in Nat
         /\ context[c].datagramQueue \in Seq(Messages) /\ context[c].cid \in AnyId
         /\ context[c].priv \in Powers /\ context[c].datagramQueueSize \in Int
         /\ context[c].flag \in BOOLEAN /\ context[c].pinned \in Int
  BY DEF Typed, Slots

\* One slot rewritten.
LEMMA Rewritten ==
  ASSUME Typed, NEW c \in Contexts, NEW s \in Slots, context' = [context EXCEPT ![c] = s],
         s.pendingDatagrams = Len(s.datagramQueue)
  PROVE  SlotsTyped' /\ Only(c) /\ context'[c] = s
<1>1. /\ context \in [Contexts -> Slots]
      /\ \A d \in Contexts : context[d].pendingDatagrams = Len(context[d].datagramQueue)
  BY DEF Typed
<1>2. context' \in [Contexts -> Slots] /\ context'[c] = s /\ Only(c)
  BY <1>1 DEF Only
<1> QED
  BY <1>1, <1>2 DEF SlotsTyped, Only

LEMMA SignalNotifyIs ==
  ASSUME Typed, NEW t \in Threads, SignalNotify(t)
  PROVE  /\ Typed' /\ At(t, "signal") /\ Top(t).ctx \in Contexts /\ Pops(t)
         /\ contextList' = contextList /\ Only(Top(t).ctx)
         /\ context'[Top(t).ctx] = Signalled(context[Top(t).ctx])
<1>1. At(t, "signal") /\ Top(t).ctx \in Contexts
  BY Where DEF SignalNotify, OnPc, FilePc
<1>2. Pops(t)
  BY MovesIs DEF SignalNotify
<1>3. /\ Signalled(context[Top(t).ctx]) \in Slots
      /\ Signalled(context[Top(t).ctx]).pendingDatagrams
           = Len(Signalled(context[Top(t).ctx]).datagramQueue)
  BY <1>1, SlotIs, ZenonT(60) DEF Signalled, Slots
<1>4. context' = [context EXCEPT ![Top(t).ctx] = Signalled(context[Top(t).ctx])]
  BY DEF SignalNotify
<1>5. SlotsTyped' /\ Only(Top(t).ctx) /\ context'[Top(t).ctx] = Signalled(context[Top(t).ctx])
  BY <1>1, <1>3, <1>4, Rewritten
<1>6. StackTyped'
  BY <1>2, StackFits, TurnsSettle
<1> QED
  BY <1>1, <1>2, <1>5, <1>6, Typing DEF SignalNotify, Typed

LEMMA MapBoolPtrIs ==
  ASSUME Typed, NEW t \in Threads, MapBoolPtr(t)
  PROVE  /\ Typed' /\ At(t, "map") /\ Top(t).ctx \in Contexts
         /\ contextList' = contextList /\ Only(Top(t).ctx) /\ Unmoved(Top(t).ctx)
         /\ context'[Top(t).ctx].pendingDatagrams = context[Top(t).ctx].pendingDatagrams
         /\ \/ Turns(t, On(Top(t).ctx, "peek"))
            \/ /\ Pops(t)
               /\ context'[Top(t).ctx].notify = context[Top(t).ctx].notify
               /\ context'[Top(t).ctx].flag = context[Top(t).ctx].flag
<1> PICK c : c = Top(t).ctx
  OBVIOUS
<1>1. At(t, "map") /\ Top(t).ctx \in Contexts /\ On(Top(t).ctx, "peek") \in Frames
  BY Where, OnIs DEF MapBoolPtr, OnPc, FilePc
<1>2. context[c] \in Slots /\ context[c].pinned \in Int
  BY <1>1, SlotIs
<1>3. CASE /\ context' = [context EXCEPT ![Top(t).ctx].notify = "mapped",
                                         ![Top(t).ctx].notifyPage = TRUE,
                                         ![Top(t).ctx].flag = FALSE, ![Top(t).ctx].pinned = @ + 1]
           /\ stack' = [stack EXCEPT ![t] = Goto(t, On(Top(t).ctx, "peek"))]
  <2>1. Turns(t, On(Top(t).ctx, "peek"))
    BY <1>1, <1>3, MovesIs
  <2>8. PICK n \in Int : n = context[c].pinned + 1
    BY <1>2
  <2>2. PICK s : s = [context[c] EXCEPT !.notify = "mapped", !.notifyPage = TRUE,
                                        !.flag = FALSE, !.pinned = n]
    OBVIOUS
  <2>3. s \in Slots
    BY <1>2, <2>2 DEF Slots
  <2>4. /\ s.pendingDatagrams = context[c].pendingDatagrams
        /\ s.datagramQueue = context[c].datagramQueue
        /\ s.cid = context[c].cid /\ s.priv = context[c].priv /\ s.refCount = context[c].refCount
        /\ s.allocated = context[c].allocated
    BY <1>2, <2>2 DEF Slots
  <2>5. context' = [context EXCEPT ![c] = s]
    BY <1>1, <1>2, <1>3, <2>2, <2>8 DEF Typed
  <2>6. SlotsTyped' /\ Only(c) /\ context'[c] = s
    <3>1. s.pendingDatagrams = Len(s.datagramQueue)
      BY <1>1, <2>4, SlotIs
    <3> QED
      BY <1>1, <2>3, <2>5, <3>1, Rewritten
  <2>7. StackTyped'
    BY <1>1, <2>1, StackFits, TurnsSettle
  <2> QED
    BY <1>1, <2>1, <2>4, <2>6, <2>7, Typing DEF MapBoolPtr, Typed, Unmoved
<1>4. CASE /\ context' = [context EXCEPT ![Top(t).ctx].notifyPage = FALSE]
           /\ stack' = [stack EXCEPT ![t] = Return(t)]
  <2>1. Pops(t)
    BY <1>4, MovesIs
  <2>2. PICK s : s = [context[c] EXCEPT !.notifyPage = FALSE]
    OBVIOUS
  <2>3. s \in Slots
    BY <1>2, <2>2 DEF Slots
  <2>4. /\ s.pendingDatagrams = context[c].pendingDatagrams
        /\ s.datagramQueue = context[c].datagramQueue
        /\ s.cid = context[c].cid /\ s.priv = context[c].priv /\ s.refCount = context[c].refCount
        /\ s.allocated = context[c].allocated
        /\ s.notify = context[c].notify /\ s.flag = context[c].flag
    BY <1>2, <2>2 DEF Slots
  <2>5. context' = [context EXCEPT ![c] = s]
    BY <1>1, <1>2, <1>4, <2>2 DEF Typed
  <2>6. SlotsTyped' /\ Only(c) /\ context'[c] = s
    <3>1. s.pendingDatagrams = Len(s.datagramQueue)
      BY <1>1, <2>4, SlotIs
    <3> QED
      BY <1>1, <2>3, <2>5, <3>1, Rewritten
  <2>7. StackTyped'
    BY <2>1, StackFits, TurnsSettle
  <2> QED
    BY <1>1, <2>1, <2>4, <2>6, <2>7, Typing DEF MapBoolPtr, Typed, Unmoved
<1> QED
  BY <1>3, <1>4 DEF MapBoolPtr

LEMMA InitNotifyIs ==
  ASSUME Typed, NEW t \in Threads, InitNotify(t)
  PROVE  /\ Typed' /\ At(t, "clear") /\ Top(t).ctx \in Contexts
         /\ Turns(t, On(Top(t).ctx, "copy"))
         /\ contextList' = contextList /\ Only(Top(t).ctx) /\ Unmoved(Top(t).ctx)
         /\ context'[Top(t).ctx].pendingDatagrams = context[Top(t).ctx].pendingDatagrams
         /\ context'[Top(t).ctx].notify = "null"
<1> PICK c : c = Top(t).ctx
  OBVIOUS
<1>1. At(t, "clear") /\ Top(t).ctx \in Contexts /\ On(Top(t).ctx, "copy") \in Frames
  BY Where, OnIs DEF InitNotify, OnPc, FilePc
<1>2. context[c] \in Slots
  BY <1>1, SlotIs
<1>3. Turns(t, On(Top(t).ctx, "copy"))
  BY <1>1, MovesIs DEF InitNotify
<1>4. PICK s : s = [context[c] EXCEPT !.notify = "null", !.notifyPage = FALSE]
  OBVIOUS
<1>5. s \in Slots
  BY <1>2, <1>4 DEF Slots
<1>6. /\ s.pendingDatagrams = context[c].pendingDatagrams
      /\ s.datagramQueue = context[c].datagramQueue /\ s.notify = "null"
      /\ s.cid = context[c].cid /\ s.priv = context[c].priv /\ s.refCount = context[c].refCount
      /\ s.allocated = context[c].allocated
  BY <1>2, <1>4 DEF Slots
<1>7. context' = [context EXCEPT ![c] = s]
  BY <1>1, <1>2, <1>4 DEF Typed, InitNotify
<1>8. s.pendingDatagrams = Len(s.datagramQueue)
  BY <1>1, <1>6, SlotIs
<1>9. SlotsTyped' /\ Only(c) /\ context'[c] = s
  BY <1>1, <1>5, <1>7, <1>8, Rewritten
<1>10. StackTyped'
  BY <1>1, <1>3, StackFits, TurnsSettle
<1> QED
  BY <1>1, <1>3, <1>6, <1>9, <1>10, Typing DEF InitNotify, Typed, Unmoved

\* The subscriptions of a context.
LEMMA NotificationIs ==
  ASSUME Typed, NEW t \in Threads, NEW c \in Contexts, NEW i \in Ids,
         AddNotification(t, c, i) \/ RemoveNotification(t, c, i)
  PROVE  /\ Typed' /\ UNCHANGED <<contextList, stack>> /\ Only(c) /\ Unmoved(c)
         /\ context'[c].pendingDatagrams = context[c].pendingDatagrams
         /\ context'[c].notify = context[c].notify /\ context'[c].flag = context[c].flag
<1>1. context[c] \in Slots /\ context[c].notifierArray \in SUBSET Ids
  BY SlotIs DEF Slots
<1>2. PICK a \in SUBSET Ids : context' = [context EXCEPT ![c].notifierArray = a]
  BY <1>1 DEF AddNotification, RemoveNotification, Typed
<1>3. PICK s : s = [context[c] EXCEPT !.notifierArray = a]
  OBVIOUS
<1>4. s \in Slots
  BY <1>1, <1>3 DEF Slots
<1>5. /\ s.pendingDatagrams = context[c].pendingDatagrams
      /\ s.datagramQueue = context[c].datagramQueue
      /\ s.notify = context[c].notify /\ s.flag = context[c].flag
      /\ s.cid = context[c].cid /\ s.priv = context[c].priv /\ s.refCount = context[c].refCount
      /\ s.allocated = context[c].allocated
  BY <1>1, <1>3 DEF Slots
<1>6. context' = [context EXCEPT ![c] = s]
  BY <1>1, <1>2, <1>3 DEF Typed
<1>7. s.pendingDatagrams = Len(s.datagramQueue)
  BY <1>5, SlotIs
<1>8. SlotsTyped' /\ Only(c) /\ context'[c] = s
  BY <1>4, <1>6, <1>7, Rewritten
<1>9. UNCHANGED <<contextList, open, stack>>
  BY DEF AddNotification, RemoveNotification
<1>10. StackTyped'
  BY <1>9 DEF Typed, StackTyped
<1> QED
  BY <1>5, <1>8, <1>9, <1>10, Typing DEF Typed, Unmoved

LEMMA DequeueIs ==
  ASSUME Typed, NEW t \in Threads, NEW c \in Contexts, Dequeue(t, c)
  PROVE  /\ Typed' /\ UNCHANGED <<contextList, stack>> /\ Only(c)
         /\ context'[c].cid = context[c].cid /\ context'[c].priv = context[c].priv
         /\ context'[c].allocated = context[c].allocated
         /\ context'[c].refCount = context[c].refCount
         /\ context'[c].notify = context[c].notify
         /\ context'[c].flag = (context[c].flag /\ ~(/\ context[c].notify = "mapped"
                                                    /\ context[c].pendingDatagrams <= 1))
         /\ \/ /\ context[c].pendingDatagrams = 0 /\ context'[c].pendingDatagrams = 0
               /\ context'[c].datagramQueue = context[c].datagramQueue
            \/ /\ context[c].pendingDatagrams > 0
               /\ context'[c].pendingDatagrams = context[c].pendingDatagrams - 1
               /\ context[c].datagramQueue # <<>>
               /\ context'[c].datagramQueue = Tail(context[c].datagramQueue)
<1>1. /\ context[c] \in Slots /\ context[c].pendingDatagrams \in Nat
      /\ context[c].datagramQueue \in Seq(Messages)
      /\ context[c].pendingDatagrams = Len(context[c].datagramQueue)
      /\ context[c].datagramQueueSize \in Int
  BY SlotIs
<1>2. PICK g \in BOOLEAN :
        g = (context[c].flag /\ ~(/\ context[c].notify = "mapped"
                                  /\ context[c].pendingDatagrams <= 1))
  OBVIOUS
<1>3. PICK q : q = IF context[c].pendingDatagrams = 0 THEN context[c].datagramQueue
                   ELSE Tail(context[c].datagramQueue)
  OBVIOUS
<1>4. PICK n : n = IF context[c].pendingDatagrams = 0 THEN 0
                   ELSE context[c].pendingDatagrams - 1
  OBVIOUS
<1>5. PICK z : z = IF context[c].pendingDatagrams = 0 THEN context[c].datagramQueueSize
                   ELSE context[c].datagramQueueSize - Head(context[c].datagramQueue).size
  OBVIOUS
<1>6. q \in Seq(Messages) /\ n \in Nat /\ n = Len(q) /\ z \in Int
  <2>1. CASE context[c].pendingDatagrams = 0
    BY <1>1, <1>3, <1>4, <1>5, <2>1
  <2>2. CASE context[c].pendingDatagrams # 0
    <3>1. context[c].datagramQueue # <<>>
      BY <1>1, <2>2
    <3>2. Head(context[c].datagramQueue) \in Messages
      BY <1>1, <3>1
    <3>3. Head(context[c].datagramQueue).size \in Int
      BY <3>2 DEF Messages
    <3>4. z \in Int
      BY <1>1, <1>5, <2>2, <3>3
    <3>5. q \in Seq(Messages) /\ Len(q) = Len(context[c].datagramQueue) - 1
      BY <1>1, <1>3, <2>2, <3>1
    <3> QED
      BY <1>1, <1>4, <2>2, <3>4, <3>5
  <2> QED
    BY <2>1, <2>2
<1>7. PICK s : s = [context[c] EXCEPT !.datagramQueue = q, !.pendingDatagrams = n,
                                      !.datagramQueueSize = z, !.flag = g]
  OBVIOUS
<1>8. s \in Slots
  BY <1>1, <1>6, <1>7 DEF Slots
<1>9. /\ s.pendingDatagrams = n /\ s.datagramQueue = q /\ s.flag = g
      /\ s.notify = context[c].notify
      /\ s.cid = context[c].cid /\ s.priv = context[c].priv /\ s.refCount = context[c].refCount
      /\ s.allocated = context[c].allocated
  BY <1>1, <1>7 DEF Slots
<1>10. context' = [context EXCEPT ![c] = s]
  BY <1>1, <1>2, <1>3, <1>4, <1>5, <1>7 DEF Typed, Dequeue
<1>11. SlotsTyped' /\ Only(c) /\ context'[c] = s
  BY <1>6, <1>8, <1>9, <1>10, Rewritten
<1>12. UNCHANGED <<contextList, open, stack>>
  BY DEF Dequeue
<1>13. StackTyped'
  BY <1>12 DEF Typed, StackTyped
<1>14. Typed'
  BY <1>11, <1>12, <1>13, Typing DEF Typed
<1>15. context[c].pendingDatagrams # 0 =>
         context[c].pendingDatagrams > 0 /\ context[c].datagramQueue # <<>>
  BY <1>1
<1> QED
  BY <1>2, <1>3, <1>4, <1>9, <1>11, <1>12, <1>14, <1>15

\* References come and go.
Recounted(c, n) ==
  /\ Only(c) /\ context'[c].refCount = n
  /\ context'[c].cid = context[c].cid /\ context'[c].priv = context[c].priv
  /\ context'[c].allocated = context[c].allocated
  /\ context'[c].datagramQueue = context[c].datagramQueue
  /\ context'[c].pendingDatagrams = context[c].pendingDatagrams
  /\ context'[c].notify = context[c].notify /\ context'[c].flag = context[c].flag

LEMMA CountIs ==
  ASSUME Typed, NEW c \in Contexts, NEW n \in Int,
         context' = [context EXCEPT ![c].refCount = n]
  PROVE  SlotsTyped' /\ Recounted(c, n)
<1>1. context[c] \in Slots /\ context[c].pendingDatagrams = Len(context[c].datagramQueue)
  BY SlotIs
<1>2. PICK s : s = [context[c] EXCEPT !.refCount = n]
  OBVIOUS
<1>3. s \in Slots
  BY <1>1, <1>2 DEF Slots
<1>4. /\ s.refCount = n /\ s.cid = context[c].cid /\ s.priv = context[c].priv
      /\ s.allocated = context[c].allocated
      /\ s.datagramQueue = context[c].datagramQueue
      /\ s.pendingDatagrams = context[c].pendingDatagrams
      /\ s.notify = context[c].notify /\ s.flag = context[c].flag
  BY <1>1, <1>2 DEF Slots
<1>5. context' = [context EXCEPT ![c] = s]
  BY <1>1, <1>2 DEF Typed
<1>6. s.pendingDatagrams = Len(s.datagramQueue)
  BY <1>1, <1>4
<1>7. SlotsTyped' /\ Only(c) /\ context'[c] = s
  BY <1>3, <1>5, <1>6, Rewritten
<1> QED
  BY <1>4, <1>7 DEF Recounted

LEMMA ReleaseIs ==
  ASSUME Typed, NEW t \in Threads, NEW c \in Contexts, NEW s, Release(t, c, s)
  PROVE  /\ SlotsTyped' /\ Recounted(c, context[c].refCount - 1)
         /\ context[c].refCount = 1 => stack' = [stack EXCEPT ![t] = Append(s, Freeing(c))]
         /\ context[c].refCount # 1 => stack' = [stack EXCEPT ![t] = s]
<1>1. context[c].refCount \in Int
  BY SlotIs
<1>2. PICK n \in Int : n = context[c].refCount - 1
  BY <1>1
<1>3. context' = [context EXCEPT ![c].refCount = n]
  BY <1>2 DEF Release, Typed
<1> QED
  BY <1>2, <1>3, CountIs DEF Release

\* ... by a thread that is done with its record:
LEMMA ReleasedAndBack ==
  ASSUME Typed, NEW t \in Threads, NEW c \in Contexts, Release(t, c, Return(t)),
         UNCHANGED <<contextList, open>>
  PROVE  /\ Typed' /\ Recounted(c, context[c].refCount - 1)
         /\ \/ context[c].refCount = 1 /\ Turns(t, Freeing(c))
            \/ context[c].refCount # 1 /\ Pops(t)
<1>1. Freeing(c) \in Frames
  BY FreeingIs
<1>2. /\ SlotsTyped' /\ Recounted(c, context[c].refCount - 1)
      /\ context[c].refCount = 1 => stack' = [stack EXCEPT ![t] = Append(Return(t), Freeing(c))]
      /\ context[c].refCount # 1 => stack' = [stack EXCEPT ![t] = Return(t)]
  <2> PICK s : s = Return(t)
    OBVIOUS
  <2> QED
    BY ReleaseIs
<1>3. \/ context[c].refCount = 1 /\ Turns(t, Freeing(c))
      \/ context[c].refCount # 1 /\ Pops(t)
  BY <1>1, <1>2, MovesIs
<1>4. StackTyped'
  BY <1>1, <1>3, StackFits, TurnsSettle
<1> QED
  BY <1>2, <1>3, <1>4, Typing DEF Typed

\* ... or that goes on with another:
LEMMA ReleasedAndOn ==
  ASSUME Typed, NEW t \in Threads, NEW c \in Contexts, NEW r \in Frames, Waits(r),
         Release(t, c, Goto(t, r)), UNCHANGED <<contextList, open>>
  PROVE  /\ Typed' /\ Recounted(c, context[c].refCount - 1)
         /\ \/ context[c].refCount = 1 /\ Pushes(t, r, Freeing(c))
            \/ context[c].refCount # 1 /\ Turns(t, r)
<1>1. Freeing(c) \in Frames
  BY FreeingIs
<1>2. /\ SlotsTyped' /\ Recounted(c, context[c].refCount - 1)
      /\ context[c].refCount = 1 => stack' = [stack EXCEPT ![t] = Append(Goto(t, r), Freeing(c))]
      /\ context[c].refCount # 1 => stack' = [stack EXCEPT ![t] = Goto(t, r)]
  <2> PICK s : s = Goto(t, r)
    OBVIOUS
  <2> QED
    BY ReleaseIs
<1>3. \/ context[c].refCount = 1 /\ Pushes(t, r, Freeing(c))
      \/ context[c].refCount # 1 /\ Turns(t, r)
  BY <1>1, <1>2, MovesIs
<1>4. StackTyped'
  BY <1>1, <1>3, StackFits, TurnsSettle
<1> QED
  BY <1>2, <1>3, <1>4, Typing DEF Typed

LEMMA PutIs ==
  ASSUME Typed, NEW t \in Threads, Put(t)
  PROVE  LET c == Top(t).ctx
         IN  /\ Typed' /\ At(t, "put") /\ c \in Contexts /\ contextList' = contextList
             /\ Recounted(c, context[c].refCount - 1)
             /\ \/ context[c].refCount = 1 /\ Turns(t, Freeing(c))
                \/ context[c].refCount # 1 /\ Pops(t)
<1>1. At(t, "put") /\ Top(t).ctx \in Contexts
  BY Where DEF Put, OnPc
<1> QED
  BY <1>1, ReleasedAndBack DEF Put

LEMMA ReleaseTargetIs ==
  ASSUME Typed, NEW t \in Threads, ReleaseTarget(t)
  PROVE  LET c == Top(t).ctx
         IN  /\ Typed' /\ At(t, "release") /\ c \in Contexts /\ contextList' = contextList
             /\ Recounted(c, context[c].refCount - 1)
             /\ \/ context[c].refCount = 1 /\ Turns(t, Freeing(c))
                \/ context[c].refCount # 1 /\ Pops(t)
<1>1. At(t, "release") /\ Top(t).ctx \in Contexts
  BY Where DEF ReleaseTarget, Targeting
<1> QED
  BY <1>1, ReleasedAndBack DEF ReleaseTarget

\* The record of a dispatch that goes on from the check.
Asks(t) == [Top(t) EXCEPT !.pc = "get", !.ctx = NoContext]

LEMMA AsksIs ==
  ASSUME Typed, NEW t \in Threads, Top(t) \in Dispatches
  PROVE  /\ Asks(t) \in Frames /\ Asks(t) \in Dispatches /\ Asks(t).pc = "get"
         /\ Asks(t).to = Top(t).to /\ Asks(t).msg = Top(t).msg /\ Waits(Asks(t))
<1>1. /\ "get" \in DispatchPc /\ "get" \notin Missing \cup Targeting
      /\ NoContext \in Contexts \cup {NoContext}
  BY DEF DispatchPc, Missing, Targeting
<1>2. /\ Asks(t) \in Frames /\ Asks(t) \in Dispatches /\ Asks(t).pc = "get"
      /\ Asks(t).to = Top(t).to /\ Asks(t).msg = Top(t).msg
  BY <1>1 DEF Asks, Frames, Dispatches
<1> QED
  BY <1>2 DEF Waits

LEMMA CheckedIs ==
  ASSUME Typed, NEW t \in Threads, Checked(t)
  PROVE  LET c == Top(t).ctx
         IN  /\ Typed' /\ At(t, "checked") /\ c \in Contexts /\ Top(t) \in Dispatches
             /\ contextList' = contextList /\ Recounted(c, context[c].refCount - 1)
             /\ \/ context[c].refCount = 1 /\ Turns(t, Freeing(c))
                \/ context[c].refCount # 1 /\ Pops(t)
                \/ /\ ~DenyInteraction(Top(t).msg.priv, context[c].priv)
                   /\ \/ context[c].refCount = 1 /\ Pushes(t, Asks(t), Freeing(c))
                      \/ context[c].refCount # 1 /\ Turns(t, Asks(t))
<1>1. At(t, "checked") /\ Top(t).ctx \in Contexts /\ Top(t) \in Dispatches
  BY Where DEF Checked, Targeting, DispatchPc
<1>2. CASE DenyInteraction(Top(t).msg.priv, context[Top(t).ctx].priv)
  <2>1. Release(t, Top(t).ctx, Return(t)) /\ UNCHANGED <<contextList, open>>
    BY <1>2 DEF Checked, AfterCheck
  <2> QED
    BY <1>1, <2>1, ReleasedAndBack
<1>3. CASE ~DenyInteraction(Top(t).msg.priv, context[Top(t).ctx].priv)
  <2>1. Release(t, Top(t).ctx, Goto(t, Asks(t))) /\ UNCHANGED <<contextList, open>>
    BY <1>3 DEF Checked, AfterCheck, Asks
  <2>2. Asks(t) \in Frames /\ Waits(Asks(t))
    BY <1>1, AsksIs
  <2> QED
    BY <1>1, <1>3, <2>1, <2>2, ReleasedAndOn
<1> QED
  BY <1>2, <1>3

\* VMCIContext_Get finds the context ...
LEMMA FoundIs ==
  ASSUME Typed, NEW t \in Threads, NEW pc \in Targeting, Top(t) \in Dispatches,
         Found(t, Top(t).to, pc), UNCHANGED <<contextList, open>>
  PROVE  /\ Typed'
         /\ \E c \in Range(contextList) :
              /\ c \in Contexts /\ context[c].cid = Top(t).to
              /\ Recounted(c, context[c].refCount + 1)
              /\ Turns(t, [Top(t) EXCEPT !.pc = pc, !.ctx = c])
<1>1. PICK c \in Range(contextList) :
        /\ context[c].cid = Top(t).to
        /\ context' = [context EXCEPT ![c].refCount = @ + 1]
        /\ stack' = [stack EXCEPT ![t] = Goto(t, [Top(t) EXCEPT !.pc = pc, !.ctx = c])]
  BY DEF Found
<1>2. c \in Contexts
  BY DEF Typed, Range
<1>3. [Top(t) EXCEPT !.pc = pc, !.ctx = c] \in Frames
  <2>1. pc \in DispatchPc /\ c \in Contexts \cup {NoContext}
    BY <1>2 DEF Targeting, DispatchPc
  <2> QED
    BY <1>2, <2>1, DispatchIs
<1>4. Turns(t, [Top(t) EXCEPT !.pc = pc, !.ctx = c])
  BY <1>1, <1>3, MovesIs
<1>5. PICK n \in Int : n = context[c].refCount + 1
  BY <1>2, SlotIs
<1>6. context' = [context EXCEPT ![c].refCount = n]
  BY <1>1, <1>2, <1>5 DEF Typed
<1>7. SlotsTyped' /\ Recounted(c, n)
  BY <1>2, <1>6, CountIs
<1>8. StackTyped'
  BY <1>3, <1>4, StackFits, TurnsSettle
<1> QED
  BY <1>1, <1>2, <1>4, <1>5, <1>7, <1>8, Typing DEF Typed

\* ... or not; the thread goes on to the comparison, or is at the end already.
LEMMA MissedIs ==
  ASSUME Typed, NEW t \in Threads, NEW pc \in Missing, Top(t) \in Dispatches,
         NEW s, Missed(t, Top(t).to, pc, s), UNCHANGED <<contextList, open>>
  PROVE  /\ ~Exists(Top(t).to) /\ context' = context
         /\ \/ stack' = [stack EXCEPT ![t] = s]
            \/ \E c \in Range(contextList) :
                 /\ c \in Contexts
                 /\ Typed' /\ Turns(t, [Top(t) EXCEPT !.pc = pc, !.ctx = c])
<1>1. ~Exists(Top(t).to) /\ context' = context
  BY DEF Missed
<1>2. CASE contextList # <<>>
  <2>1. PICK c : c = Last(contextList)
    OBVIOUS
  <2>2. c \in Range(contextList) /\ c \in Contexts
    BY <1>2, <2>1 DEF Typed, Range, Last
  <2>3. [Top(t) EXCEPT !.pc = pc, !.ctx = c] \in Frames
    <3>1. pc \in DispatchPc /\ c \in Contexts \cup {NoContext}
      BY <2>2 DEF Missing, DispatchPc
    <3> QED
      BY <2>2, <3>1, DispatchIs
  <2>4. Turns(t, [Top(t) EXCEPT !.pc = pc, !.ctx = c])
    BY <1>2, <2>1, <2>3, MovesIs DEF Missed
  <2>5. Typed'
    BY <1>1, <2>3, <2>4, TurnsSettle, TurnsTyped DEF Typed
  <2> QED
    BY <1>1, <2>2, <2>4, <2>5
<1>3. CASE contextList = <<>>
  BY <1>1, <1>3 DEF Missed
<1> QED
  BY <1>2, <1>3

\* What the end of a check leaves.
LEMMA AfterCheckIs ==
  ASSUME Typed, NEW t \in Threads, NEW q, Top(t) \in Dispatches,
         UNCHANGED <<contextList, context, open>>,
         stack' = [stack EXCEPT ![t] = AfterCheck(t, q)]
  PROVE  /\ Typed'
         /\ \/ Pops(t)
            \/ ~DenyInteraction(Top(t).msg.priv, q) /\ Turns(t, Asks(t))
<1>1. CASE DenyInteraction(Top(t).msg.priv, q)
  <2>1. Pops(t)
    BY <1>1, MovesIs DEF AfterCheck
  <2> QED
    BY <2>1, TurnsSettle, TurnsTyped DEF Typed
<1>2. CASE ~DenyInteraction(Top(t).msg.priv, q)
  <2>1. stack' = [stack EXCEPT ![t] = Goto(t, Asks(t))] /\ Asks(t) \in Frames
    BY <1>2, AsksIs DEF AfterCheck, Asks
  <2>2. Turns(t, Asks(t))
    BY <2>1, MovesIs
  <2> QED
    BY <1>2, <2>1, <2>2, TurnsSettle, TurnsTyped DEF Typed
<1> QED
  BY <1>1, <1>2

\* A dispatch that turns away: from a check or a search that found nothing.
TurnsAway(t) ==
  \/ Pops(t)
  \/ /\ ~DenyInteraction(Top(t).msg.priv, "restricted")
     /\ Top(t).pc \in {"check", "check_missed"} /\ Turns(t, Asks(t))

\* The steps of a search for the target.
Finds(t, pc) ==
  \E c \in Range(contextList) :
    /\ c \in Contexts /\ context[c].cid = Top(t).to
    /\ Recounted(c, context[c].refCount + 1)
    /\ Turns(t, [Top(t) EXCEPT !.pc = pc, !.ctx = c])
Misses(t, pc) ==
  /\ ~Exists(Top(t).to) /\ context' = context
  /\ \E c \in Range(contextList) :
       c \in Contexts /\ Turns(t, [Top(t) EXCEPT !.pc = pc, !.ctx = c])

LEMMA CheckIs ==
  ASSUME Typed, NEW t \in Threads, Check(t)
  PROVE  /\ Typed' /\ At(t, "check") /\ Top(t) \in Dispatches /\ contextList' = contextList
         /\ \/ Finds(t, "checked")
            \/ Misses(t, "check_missed")
            \/ context' = context /\ TurnsAway(t)
<1>1. /\ At(t, "check") /\ Top(t) \in Dispatches /\ Top(t).pc = "check"
      /\ UNCHANGED <<contextList, open>>
  BY Where DEF Check, DispatchPc
<1>2. CASE Found(t, Top(t).to, "checked")
  <2>1. "checked" \in Targeting
    BY DEF Targeting
  <2> QED
    BY <1>1, <1>2, <2>1, FoundIs DEF Finds
<1>3. CASE Missed(t, Top(t).to, "check_missed", AfterCheck(t, "restricted"))
  <2>1. "check_missed" \in Missing
    BY DEF Missing
  <2>2. PICK s : s = AfterCheck(t, "restricted")
    OBVIOUS
  <2>3. /\ ~Exists(Top(t).to) /\ context' = context
        /\ \/ stack' = [stack EXCEPT ![t] = s]
           \/ \E c \in Range(contextList) :
                /\ c \in Contexts
                /\ Typed' /\ Turns(t, [Top(t) EXCEPT !.pc = "check_missed", !.ctx = c])
    BY <1>1, <1>3, <2>1, <2>2, MissedIs
  <2>4. CASE stack' = [stack EXCEPT ![t] = s]
    BY <1>1, <2>2, <2>3, <2>4, AfterCheckIs DEF TurnsAway
  <2> QED
    BY <1>1, <2>3, <2>4 DEF Misses
<1> QED
  BY <1>2, <1>3 DEF Check

LEMMA GetIs ==
  ASSUME Typed, NEW t \in Threads, Get(t)
  PROVE  /\ Typed' /\ At(t, "get") /\ Top(t) \in Dispatches /\ contextList' = contextList
         /\ \/ Finds(t, "enqueue")
            \/ Misses(t, "get_missed")
            \/ context' = context /\ TurnsAway(t)
<1>1. /\ At(t, "get") /\ Top(t) \in Dispatches /\ Top(t).pc = "get"
      /\ UNCHANGED <<contextList, open>>
  BY Where DEF Get, DispatchPc
<1>2. CASE Found(t, Top(t).to, "enqueue")
  <2>1. "enqueue" \in Targeting
    BY DEF Targeting
  <2> QED
    BY <1>1, <1>2, <2>1, FoundIs DEF Finds
<1>3. CASE Missed(t, Top(t).to, "get_missed", Return(t))
  <2>1. "get_missed" \in Missing
    BY DEF Missing
  <2>2. PICK s : s = Return(t)
    OBVIOUS
  <2>3. /\ ~Exists(Top(t).to) /\ context' = context
        /\ \/ stack' = [stack EXCEPT ![t] = s]
           \/ \E c \in Range(contextList) :
                /\ c \in Contexts
                /\ Typed' /\ Turns(t, [Top(t) EXCEPT !.pc = "get_missed", !.ctx = c])
    BY <1>1, <1>3, <2>1, <2>2, MissedIs
  <2>4. CASE stack' = [stack EXCEPT ![t] = s]
    <3>1. Pops(t)
      BY <2>2, <2>4, MovesIs
    <3> QED
      BY <1>1, <2>3, <3>1, TurnsSettle, TurnsTyped DEF TurnsAway, Typed
  <2> QED
    BY <1>1, <2>3, <2>4 DEF Misses
<1> QED
  BY <1>2, <1>3 DEF Get

\* The comparison.
LEMMA CheckMissedIs ==
  ASSUME Typed, NEW t \in Threads, CheckMissed(t)
  PROVE  /\ Typed' /\ At(t, "check_missed") /\ Top(t) \in Dispatches
         /\ Top(t).ctx \in Contexts /\ UNCHANGED <<contextList, context>>
         /\ \/ /\ context[Top(t).ctx].cid = Top(t).to
               /\ Turns(t, [Top(t) EXCEPT !.pc = "checked"])
            \/ TurnsAway(t)
<1>1. /\ At(t, "check_missed") /\ Top(t) \in Dispatches /\ Top(t).pc = "check_missed"
      /\ Top(t).ctx \in Contexts /\ UNCHANGED <<contextList, context, open>>
  BY Where DEF CheckMissed, Compare, DispatchPc, Missing
<1>2. CASE context[Top(t).ctx].cid = Top(t).to
  <2>1. "checked" \in DispatchPc
    BY DEF DispatchPc
  <2>2. [Top(t) EXCEPT !.pc = "checked"] \in Frames
    BY <1>1, <2>1, DispatchOn
  <2>3. Turns(t, [Top(t) EXCEPT !.pc = "checked"])
    BY <1>2, <2>2, MovesIs DEF CheckMissed, Compare
  <2> QED
    BY <1>1, <1>2, <2>2, <2>3, TurnsSettle, TurnsTyped DEF Typed
<1>3. CASE context[Top(t).ctx].cid # Top(t).to
  <2>1. stack' = [stack EXCEPT ![t] = AfterCheck(t, "restricted")]
    BY <1>3 DEF CheckMissed, Compare
  <2> QED
    BY <1>1, <2>1, AfterCheckIs DEF TurnsAway
<1> QED
  BY <1>2, <1>3

LEMMA GetMissedIs ==
  ASSUME Typed, NEW t \in Threads, GetMissed(t)
  PROVE  /\ Typed' /\ At(t, "get_missed") /\ Top(t) \in Dispatches
         /\ Top(t).ctx \in Contexts /\ UNCHANGED <<contextList, context>>
         /\ \/ /\ context[Top(t).ctx].cid = Top(t).to
               /\ Turns(t, [Top(t) EXCEPT !.pc = "enqueue"])
            \/ TurnsAway(t)
<1>1. /\ At(t, "get_missed") /\ Top(t) \in Dispatches
      /\ Top(t).ctx \in Contexts /\ UNCHANGED <<contextList, context, open>>
  BY Where DEF GetMissed, Compare, DispatchPc, Missing
<1>2. CASE context[Top(t).ctx].cid = Top(t).to
  <2>1. "enqueue" \in DispatchPc
    BY DEF DispatchPc
  <2>2. [Top(t) EXCEPT !.pc = "enqueue"] \in Frames
    BY <1>1, <2>1, DispatchOn
  <2>3. Turns(t, [Top(t) EXCEPT !.pc = "enqueue"])
    BY <1>2, <2>2, MovesIs DEF GetMissed, Compare
  <2> QED
    BY <1>1, <1>2, <2>2, <2>3, TurnsSettle, TurnsTyped DEF Typed
<1>3. CASE context[Top(t).ctx].cid # Top(t).to
  <2>1. Pops(t)
    BY <1>3, MovesIs DEF GetMissed, Compare
  <2> QED
    BY <1>1, <2>1, TurnsSettle, TurnsTyped DEF TurnsAway, Typed
<1> QED
  BY <1>2, <1>3

LEMMA RefuseIs ==
  ASSUME Typed, NEW t \in Threads, Refuse(t)
  PROVE  /\ Typed' /\ At(t, "enqueue") /\ Top(t) \in Dispatches
         /\ UNCHANGED <<contextList, context>>
         /\ Turns(t, [Top(t) EXCEPT !.pc = "release"])
<1>1. /\ At(t, "enqueue") /\ Top(t) \in Dispatches /\ Top(t).ctx \in Contexts
      /\ UNCHANGED <<contextList, context, open>>
  BY Where DEF Refuse, DispatchPc, Targeting
<1>2. [Top(t) EXCEPT !.pc = "release"] \in Frames
  BY <1>1, DispatchOn DEF DispatchPc
<1>3. Turns(t, [Top(t) EXCEPT !.pc = "release"])
  BY <1>2, MovesIs DEF Refuse
<1> QED
  BY <1>1, <1>2, <1>3, TurnsSettle, TurnsTyped DEF Typed

\* An event is what the hypervisor sends.
EventOf(c) == [from |-> c, priv |-> Event, size |-> EventSize]

LEMMA SendIs ==
  ASSUME Typed, NEW t \in Threads, NEW c \in Contexts, NEW i \in Ids, NEW n \in Sizes,
         Send(t, c, i, n)
  PROVE  /\ Typed' /\ Idle(t) /\ c \in open /\ UNCHANGED <<contextList, context, open>>
         /\ \E m \in Messages :
              /\ m.from = c /\ m.priv = context[c].priv /\ ~IsEvent(m)
              /\ Dispatching(i, m) \in Frames /\ Turns(t, Dispatching(i, m))
<1>1. PICK m : m = [from |-> c, priv |-> context[c].priv, size |-> n]
  OBVIOUS
<1>2. context[c].priv \in Powers /\ n \in Int
  BY SlotIs, SizeAssumption
<1>3. m \in Messages /\ m.from = c /\ m.priv = context[c].priv /\ ~IsEvent(m)
  BY <1>1, <1>2 DEF Messages, IsEvent, Event, Powers
<1>4. Dispatching(i, m) \in Frames
  BY <1>3, DispatchingIs DEF AnyId
<1>5. Turns(t, Dispatching(i, m))
  <2>1. stack[t] = <<>> /\ stack' = [stack EXCEPT ![t] = <<Dispatching(i, m)>>]
    BY <1>1 DEF Send, Idle
  <2> QED
    BY <1>4, <2>1, MovesIs
<1> QED
  BY <1>3, <1>4, <1>5, TurnsSettle, TurnsTyped DEF Send, Typed

LEMMA FireIs ==
  ASSUME Typed, NEW t \in Threads, Fire(t)
  PROVE  /\ Typed' /\ At(t, "fire") /\ Top(t) \in Frees /\ Top(t).ctx \in Contexts
         /\ UNCHANGED <<contextList, context>>
         /\ EventOf(Top(t).ctx) \in Messages /\ IsEvent(EventOf(Top(t).ctx))
         /\ \E i \in Top(t).todo :
              /\ i \in AnyId /\ Dispatching(i, EventOf(Top(t).ctx)) \in Frames
              /\ Pushes(t, [Top(t) EXCEPT !.todo = @ \ {i}],
                           Dispatching(i, EventOf(Top(t).ctx)))
<1>1. /\ At(t, "fire") /\ Top(t) \in Frees /\ Top(t).ctx \in Contexts /\ Top(t).pc = "fire"
      /\ UNCHANGED <<contextList, context, open>>
  BY Where DEF Fire, FreePc
<1>2. EventOf(Top(t).ctx) \in Messages /\ IsEvent(EventOf(Top(t).ctx))
  BY <1>1, SizeAssumption DEF EventOf, Messages, IsEvent
<1>3. PICK i \in Top(t).todo :
        stack' = [stack EXCEPT ![t] =
                    Append(Goto(t, [Top(t) EXCEPT !.todo = @ \ {i}]),
                           Dispatching(i, EventOf(Top(t).ctx)))]
  BY DEF Fire, EventOf
<1>4. i \in AnyId /\ [Top(t) EXCEPT !.todo = @ \ {i}] \in Frames
      /\ Waits([Top(t) EXCEPT !.todo = @ \ {i}])
  <2>1. Top(t).todo \in SUBSET AnyId
    BY <1>1 DEF Frees
  <2>2. [Top(t) EXCEPT !.todo = @ \ {i}] \in Frees /\ [Top(t) EXCEPT !.todo = @ \ {i}].pc = "fire"
    BY <1>1, <2>1 DEF Frees
  <2> QED
    BY <1>3, <2>1, <2>2 DEF Frames, Missing, Targeting, Waits
<1>5. Dispatching(i, EventOf(Top(t).ctx)) \in Frames
  BY <1>2, <1>4, DispatchingIs
<1>6. Pushes(t, [Top(t) EXCEPT !.todo = @ \ {i}], Dispatching(i, EventOf(Top(t).ctx)))
  BY <1>3, <1>4, <1>5, MovesIs
<1> QED
  BY <1>1, <1>2, <1>3, <1>4, <1>5, <1>6, TurnsSettle, TurnsTyped DEF Typed

LEMMA ScanIs ==
  ASSUME Typed, NEW t \in Threads, Scan(t)
  PROVE  /\ Typed' /\ At(t, "scan") /\ Top(t) \in Frees /\ Top(t).ctx \in Contexts
         /\ UNCHANGED <<contextList, context>>
         /\ \E r \in Frames :
              /\ r \in Frees /\ r.pc = "fire" /\ r.ctx = Top(t).ctx
              /\ r.todo = {context[d].cid : d \in Subscribers(r.ctx)}
              /\ Turns(t, r)
<1>1. /\ At(t, "scan") /\ Top(t) \in Frees /\ Top(t).ctx \in Contexts
      /\ UNCHANGED <<contextList, context, open>>
  BY Where DEF Scan, FreePc
<1>2. PICK w : w = {context[d].cid : d \in Subscribers(Top(t).ctx)}
  OBVIOUS
<1>3. w \in SUBSET AnyId
  <2>1. \A d \in Subscribers(Top(t).ctx) : d \in Contexts
    BY DEF Subscribers, Range, Typed
  <2> QED
    BY <1>2, <2>1, SlotIs
<1>4. PICK r : r = [Top(t) EXCEPT !.pc = "fire", !.todo = w]
  OBVIOUS
<1>5. r \in Frees /\ r.pc = "fire" /\ r.ctx = Top(t).ctx /\ r.todo = w
  BY <1>1, <1>3, <1>4 DEF Frees, FreePc
<1>6. r \in Frames
  BY <1>5 DEF Frames, Missing, Targeting
<1>7. stack' = [stack EXCEPT ![t] = Goto(t, r)]
  BY <1>2, <1>4 DEF Scan
<1>8. Turns(t, r)
  BY <1>6, <1>7, MovesIs
<1> QED
  BY <1>1, <1>2, <1>5, <1>6, <1>8, TurnsSettle, TurnsTyped DEF Typed

LEMMA FreshIs == Fresh \in Slots
<1>1. <<>> \in Seq(Messages) /\ {} \in SUBSET Ids /\ NoId \in AnyId /\ "none" \in Powers
  BY DEF AnyId, Powers
<1> QED
  BY <1>1 DEF Fresh, Slots

LEMMA FreeContextIs ==
  ASSUME Typed, NEW t \in Threads, FreeContext(t)
  PROVE  LET c == Top(t).ctx
         IN  /\ Typed' /\ At(t, "fire") /\ Top(t) \in Frees /\ c \in Contexts
             /\ contextList' = contextList /\ Pops(t) /\ Only(c)
             /\ context'[c].cid = context[c].cid /\ context'[c].priv = context[c].priv
             /\ ~context'[c].allocated
             /\ context'[c].refCount = 0 /\ context'[c].datagramQueue = <<>>
             /\ context'[c].pendingDatagrams = 0 /\ context'[c].notify = "garbage"
<1> PICK c : c = Top(t).ctx
  OBVIOUS
<1>1. /\ At(t, "fire") /\ Top(t) \in Frees /\ c \in Contexts
      /\ UNCHANGED <<contextList, open>>
  BY Where DEF FreeContext, FreePc
<1>2. context[c] \in Slots
  BY <1>1, SlotIs
<1>3. Pops(t)
  BY MovesIs DEF FreeContext
<1>4. PICK p \in Int :
        p = IF context[c].notifyPage THEN context[c].pinned - 1 ELSE context[c].pinned
  BY <1>2 DEF Slots
<1>5. PICK s : s = [Fresh EXCEPT !.cid = context[c].cid, !.priv = context[c].priv, !.pinned = p]
  OBVIOUS
<1>6. s \in Slots
  <2>1. context[c].cid \in AnyId /\ context[c].priv \in Powers
    BY <1>2 DEF Slots
  <2> QED
    BY <1>5, <2>1, FreshIs DEF Slots
<1>7. /\ s.cid = context[c].cid /\ s.priv = context[c].priv
      /\ ~s.allocated
      /\ s.refCount = 0 /\ s.datagramQueue = <<>> /\ s.pendingDatagrams = 0
      /\ s.notify = "garbage" /\ Len(<<>>) = 0
  BY <1>5 DEF Fresh
<1>8. context' = [context EXCEPT ![c] = s]
  BY <1>1, <1>4, <1>5 DEF Typed, FreeContext, Freed
<1>9. SlotsTyped' /\ Only(c) /\ context'[c] = s
  BY <1>1, <1>6, <1>7, <1>8, Rewritten
<1>10. StackTyped'
  BY <1>3, StackFits, TurnsSettle
<1> QED
  BY <1>1, <1>3, <1>7, <1>9, <1>10, Typing DEF Typed

LEMMA InitContextIs ==
  ASSUME Typed, NEW t \in Threads, NEW c \in Contexts, NEW i \in Ids, NEW p \in Privileges,
         InitContext(t, c, i, p)
  PROVE  /\ Typed' /\ Idle(t) /\ Turns(t, On(c, "clear")) /\ Only(c)
         /\ contextList' = Append(contextList, c)
         /\ context'[c].cid = i /\ context'[c].priv = p
         /\ ~context[c].allocated /\ context'[c].allocated
         /\ context'[c].refCount = 1 /\ context'[c].datagramQueue = <<>>
         /\ context'[c].pendingDatagrams = 0 /\ context'[c].notify = "garbage"
<1>1. On(c, "clear") \in Frames
  BY OnIs DEF OnPc
<1>2. Idle(t) /\ Turns(t, On(c, "clear"))
  BY <1>1, MovesIs DEF InitContext, Idle
<1>3. PICK s : s = [Fresh EXCEPT !.allocated = TRUE, !.cid = i, !.refCount = 1, !.priv = p]
  OBVIOUS
<1>4. s \in Slots
  <2>1. i \in AnyId /\ p \in Powers
    BY PrivilegeAssumption DEF AnyId, Powers
  <2>2. PICK n \in Int : n = 1
    OBVIOUS
  <2>3. s = [Fresh EXCEPT !.allocated = TRUE, !.cid = i, !.refCount = n, !.priv = p]
    BY <1>3, <2>2
  <2> QED
    BY <2>1, <2>3, FreshIs DEF Slots
<1>5. /\ s.cid = i /\ s.priv = p /\ s.refCount = 1 /\ s.datagramQueue = <<>> /\ s.allocated
      /\ s.pendingDatagrams = 0 /\ s.notify = "garbage" /\ Len(<<>>) = 0
  BY <1>3 DEF Fresh
<1>6. context' = [context EXCEPT ![c] = s]
  BY <1>3 DEF InitContext
<1>7. SlotsTyped' /\ Only(c) /\ context'[c] = s
  BY <1>4, <1>5, <1>6, Rewritten
<1>8. StackTyped'
  BY <1>1, <1>2, StackFits, TurnsSettle
<1>9. /\ contextList' = Append(contextList, c) /\ contextList' \in Seq(Contexts) /\ open' = open
      /\ ~context[c].allocated
  BY DEF InitContext, Typed
<1> QED
  BY <1>2, <1>5, <1>7, <1>8, <1>9, Typing DEF Typed

\* What is left of a sequence when one is taken out.
LEMMA Removal ==
  ASSUME NEW S, NEW s \in Seq(S), NEW n \in 1..Len(s)
  PROVE  /\ RemoveAt(s, n) \in Seq(S) /\ Len(RemoveAt(s, n)) = Len(s) - 1
         /\ \A k \in 1..(Len(s) - 1) : RemoveAt(s, n)[k] = IF k < n THEN s[k] ELSE s[k + 1]
<1>1. Len(s) \in Nat /\ n \in Nat /\ n >= 1 /\ n <= Len(s)
  OBVIOUS
<1>2. PICK a : a = SubSeq(s, 1, n - 1)
  OBVIOUS
<1>3. PICK b : b = SubSeq(s, n + 1, Len(s))
  OBVIOUS
<1>4. a \in Seq(S) /\ Len(a) = n - 1 /\ \A k \in 1..(n - 1) : a[k] = s[k]
  BY <1>1, <1>2
<1>5. b \in Seq(S) /\ Len(b) = Len(s) - n /\ \A k \in 1..(Len(s) - n) : b[k] = s[k + n]
  BY <1>1, <1>3
<1>6. RemoveAt(s, n) = a \o b
  BY <1>2, <1>3 DEF RemoveAt
<1>7. a \o b \in Seq(S) /\ Len(a \o b) = Len(s) - 1
  <2>1. a \o b \in Seq(S) /\ Len(a \o b) = Len(a) + Len(b)
    <3>1. a \in Seq(S) /\ b \in Seq(S)
      BY <1>4, <1>5
    <3> QED
      BY <3>1
  <2> QED
    BY <1>1, <1>4, <1>5, <2>1
<1>8. ASSUME NEW k \in 1..(Len(s) - 1) PROVE (a \o b)[k] = IF k < n THEN s[k] ELSE s[k + 1]
  <2>1. CASE k < n
    BY <1>1, <1>4, <1>5, <2>1
  <2>2. CASE ~(k < n)
    <3>1. (a \o b)[k] = b[k - (n - 1)]
      BY <1>1, <1>4, <1>5, <2>2
    <3>2. k - (n - 1) \in 1..(Len(s) - n)
      BY <1>1, <2>2
    <3>3. b[k - (n - 1)] = s[(k - (n - 1)) + n]
      BY <1>5, <3>2
    <3>4. (k - (n - 1)) + n = k + 1
      BY <1>1
    <3> QED
      BY <2>2, <3>1, <3>3, <3>4
  <2> QED
    BY <2>1, <2>2
<1> QED
  BY <1>6, <1>7, <1>8

\* A context leaves the list.
Unlists(c) ==
  \E n \in 1..Len(contextList) :
    contextList[n] = c /\ contextList' = RemoveAt(contextList, n)

LEMMA ReleaseContextIs ==
  ASSUME Typed, NEW t \in Threads, NEW c \in Contexts, ReleaseContext(t, c, Return(t)),
         open' \subseteq Contexts
  PROVE  /\ Typed' /\ context' = context /\ Unlists(c) /\ Turns(t, On(c, "put"))
<1>1. contextList \in Seq(Contexts)
  BY DEF Typed
<1>2. Unlists(c) /\ context' = context
  BY <1>1 DEF Unlists, ReleaseContext
<1>3. contextList' \in Seq(Contexts)
  BY <1>1, <1>2, Removal DEF Unlists
<1>4. On(c, "put") \in Frames
  BY OnIs DEF OnPc
<1>5. Turns(t, On(c, "put"))
  BY <1>4, MovesIs DEF ReleaseContext
<1>6. StackTyped' /\ SlotsTyped'
  BY <1>2, <1>4, <1>5, StackFits, TurnsSettle DEF Typed, SlotsTyped
<1> QED
  BY <1>2, <1>3, <1>5, <1>6, Typing

LEMMA InitFaultsIs ==
  ASSUME Typed, NEW t \in Threads, InitFaults(t)
  PROVE  /\ Typed' /\ At(t, "copy") /\ Top(t).ctx \in Contexts /\ context' = context
         /\ Unlists(Top(t).ctx) /\ Turns(t, On(Top(t).ctx, "put"))
<1>1. At(t, "copy") /\ Top(t).ctx \in Contexts
  BY Where DEF InitFaults, OnPc
<1> QED
  BY <1>1, ReleaseContextIs DEF InitFaults, Typed

LEMMA CloseIs ==
  ASSUME Typed, NEW t \in Threads, NEW c \in Contexts, Close(t, c)
  PROVE  /\ Typed' /\ Idle(t) /\ context' = context
         /\ Unlists(c) /\ Turns(t, On(c, "put"))
<1>1. Idle(t) /\ open' \subseteq Contexts /\ ReleaseContext(t, c, <<>>)
  BY DEF Close, Typed
<1>2. Return(t) = <<>>
  BY <1>1 DEF Idle, Return, Front
<1> QED
  BY <1>1, <1>2, ReleaseContextIs

\* An enqueuer moves, and wakes who sleeps.
Sleeps(u, c) == At(u, "asleep") /\ Top(u).ctx = c
Wakes(t, c, r) ==
  /\ stack' \in [Threads -> Seq(Frames)]
  /\ Len(stack'[t]) = Kept(t) + 1 /\ stack'[t][Kept(t) + 1] = r
  /\ \A n \in 1..Kept(t) : stack'[t][n] = stack[t][n]
  /\ \A u \in Threads : u # t /\ ~Sleeps(u, c) => stack'[u] = stack[u]
  /\ \A u \in Threads : u # t /\ Sleeps(u, c) =>
       /\ Len(stack'[u]) = Kept(u) + 1 /\ stack'[u][Kept(u) + 1] = On(c, "poll")
       /\ \A n \in 1..Kept(u) : stack'[u][n] = stack[u][n]

LEMMA WakesFits ==
  ASSUME Typed, NEW t \in Threads, NEW c \in Contexts, NEW r \in Frames, Wakes(t, c, r)
  PROVE  StackTyped'
<1>1. ASSUME NEW u \in Threads,
             Len(stack'[u]) = Kept(u) + 1, \A n \in 1..Kept(u) : stack'[u][n] = stack[u][n]
      PROVE  \A n \in 1..(Len(stack'[u]) - 1) : Waits(stack'[u][n])
  <2> TAKE n \in 1..(Len(stack'[u]) - 1)
  <2>1. Kept(u) \in Nat /\ n \in 1..Kept(u)
    BY <1>1, Tops
  <2>2. stack'[u][n] = stack[u][n]
    BY <1>1, <2>1
  <2>3. n \in 1..(Len(stack[u]) - 1)
    BY <2>1, Tops DEF Kept
  <2> QED
    BY <2>2, <2>3 DEF Typed
<1>2. ASSUME NEW u \in Threads PROVE \A n \in 1..(Len(stack'[u]) - 1) : Waits(stack'[u][n])
  <2>1. CASE u # t /\ ~Sleeps(u, c)
    BY <2>1 DEF Wakes, Typed
  <2>2. CASE u = t \/ Sleeps(u, c)
    BY <1>1, <2>2 DEF Wakes
  <2> QED
    BY <2>1, <2>2
<1> QED
  BY <1>2 DEF Wakes, StackTyped, Waits

LEMMA EnqueueIs ==
  ASSUME Typed, NEW t \in Threads, Enqueue(t)
  PROVE  LET c == Top(t).ctx
         IN  /\ Typed' /\ At(t, "enqueue") /\ Top(t) \in Dispatches /\ c \in Contexts
             /\ Top(t).msg \in Messages
             /\ contextList' = contextList /\ Only(c)
             /\ context'[c].cid = context[c].cid /\ context'[c].priv = context[c].priv
             /\ context'[c].allocated = context[c].allocated
             /\ context'[c].refCount = context[c].refCount
             /\ context'[c].datagramQueue = Append(context[c].datagramQueue, Top(t).msg)
             /\ context'[c].notify = context[c].notify
             /\ context'[c].flag = (context[c].flag \/ context[c].notify = "mapped")
             /\ [Top(t) EXCEPT !.pc = "release"] \in Frames
             /\ Wakes(t, c, [Top(t) EXCEPT !.pc = "release"])
<1> PICK c : c = Top(t).ctx
  OBVIOUS
<1> PICK r : r = [Top(t) EXCEPT !.pc = "release"]
  OBVIOUS
<1>1. /\ At(t, "enqueue") /\ Top(t) \in Dispatches /\ c \in Contexts
      /\ UNCHANGED <<contextList, open>>
  BY Where DEF Enqueue, DispatchPc, Targeting
<1>2. r \in Frames
  BY <1>1, DispatchOn DEF DispatchPc
<1>3. Top(t).msg \in Messages /\ Top(t).msg.size \in Int
  BY <1>1 DEF Dispatches, Messages
<1>4. /\ context[c] \in Slots /\ context[c].pendingDatagrams \in Nat
      /\ context[c].datagramQueue \in Seq(Messages)
      /\ context[c].pendingDatagrams = Len(context[c].datagramQueue)
      /\ context[c].datagramQueueSize \in Int /\ context[c].flag \in BOOLEAN
  BY <1>1, SlotIs
<1>5. PICK q : q = Append(context[c].datagramQueue, Top(t).msg)
  OBVIOUS
<1>6. PICK n \in Nat : n = context[c].pendingDatagrams + 1
  BY <1>4
<1>7. PICK z \in Int : z = context[c].datagramQueueSize + Top(t).msg.size
  BY <1>3, <1>4
<1>8. q \in Seq(Messages) /\ Len(q) = n
  BY <1>3, <1>4, <1>5, <1>6
<1>9. PICK s1 : s1 = [context[c] EXCEPT !.datagramQueue = q, !.pendingDatagrams = n,
                                        !.datagramQueueSize = z]
  OBVIOUS
<1>10. /\ s1 \in Slots /\ s1.pendingDatagrams = n /\ s1.datagramQueue = q
       /\ s1.notify = context[c].notify /\ s1.flag = context[c].flag
       /\ s1.cid = context[c].cid /\ s1.priv = context[c].priv
       /\ s1.allocated = context[c].allocated
       /\ s1.refCount = context[c].refCount
  BY <1>4, <1>8, <1>9 DEF Slots
<1>11. PICK s : s = Signalled(s1)
  OBVIOUS
<1>12. /\ s \in Slots /\ s.pendingDatagrams = n /\ s.datagramQueue = q
       /\ s.notify = context[c].notify
       /\ s.flag = (context[c].flag \/ context[c].notify = "mapped")
       /\ s.cid = context[c].cid /\ s.priv = context[c].priv
       /\ s.allocated = context[c].allocated
       /\ s.refCount = context[c].refCount
  BY <1>10, <1>11 DEF Signalled, Slots
<1>13. context' = [context EXCEPT ![c] = s]
  BY <1>1, <1>5, <1>6, <1>7, <1>9, <1>11 DEF Enqueue
<1>14. SlotsTyped' /\ Only(c) /\ context'[c] = s
  BY <1>1, <1>8, <1>12, <1>13, Rewritten, ZenonT(60)
<1>15. stack' = [Woken(c) EXCEPT ![t] = Goto(t, r)]
  BY DEF Enqueue
<1>16. Wakes(t, c, r)
  <2>1. On(c, "poll") \in Frames
    BY <1>1, OnIs DEF OnPc, FilePc
  <2>2. ASSUME NEW u \in Threads
        PROVE  /\ Goto(u, On(c, "poll")) \in Seq(Frames)
               /\ Len(Goto(u, On(c, "poll"))) = Kept(u) + 1
               /\ Goto(u, On(c, "poll"))[Kept(u) + 1] = On(c, "poll")
               /\ \A k \in 1..Kept(u) : Goto(u, On(c, "poll"))[k] = stack[u][k]
    BY <2>1, GotoIs
  <2>3. /\ Goto(t, r) \in Seq(Frames) /\ Len(Goto(t, r)) = Kept(t) + 1
        /\ Goto(t, r)[Kept(t) + 1] = r
        /\ \A k \in 1..Kept(t) : Goto(t, r)[k] = stack[t][k]
    BY <1>2, GotoIs
  <2>4. stack'[t] = Goto(t, r)
    BY <1>15 DEF Woken
  <2>5. ASSUME NEW u \in Threads, u # t
        PROVE  stack'[u] = IF Sleeps(u, c) THEN Goto(u, On(c, "poll")) ELSE stack[u]
    BY <1>15, <2>5 DEF Woken, Sleeps
  <2>6. ASSUME NEW u \in Threads PROVE stack'[u] \in Seq(Frames)
    BY <2>2, <2>3, <2>4, <2>5, Tops
  <2>7. stack' \in [Threads -> Seq(Frames)]
    BY <1>15, <2>6 DEF Woken
  <2>8. /\ Len(stack'[t]) = Kept(t) + 1 /\ stack'[t][Kept(t) + 1] = r
        /\ \A k \in 1..Kept(t) : stack'[t][k] = stack[t][k]
    BY <2>3, <2>4
  <2>9. ASSUME NEW u \in Threads, u # t, Sleeps(u, c)
        PROVE  /\ Len(stack'[u]) = Kept(u) + 1 /\ stack'[u][Kept(u) + 1] = On(c, "poll")
               /\ \A k \in 1..Kept(u) : stack'[u][k] = stack[u][k]
    <3>1. stack'[u] = Goto(u, On(c, "poll"))
      BY <2>5, <2>9
    <3> QED
      BY <2>2, <3>1
  <2>10. ASSUME NEW u \in Threads, u # t, ~Sleeps(u, c) PROVE stack'[u] = stack[u]
    BY <2>5, <2>10
  <2> QED
    BY <2>7, <2>8, <2>9, <2>10 DEF Wakes
<1>17. StackTyped'
  BY <1>1, <1>2, <1>16, WakesFits
<1> QED
  BY <1>1, <1>2, <1>3, <1>5, <1>12, <1>14, <1>16, <1>17, Typing DEF Typed

-----------------------------------------------------------------------------
(* Polls and notification *)

\* A mapped flag that is not set although a datagram is pending.
Owes(c) ==
  /\ context[c].notify = "mapped" /\ context[c].pendingDatagrams > 0 /\ ~context[c].flag

\* ... is going to be set by the thread that set it up.
SignalsComing ==
  \A c \in Contexts : Owes(c) =>
    \E t \in Threads : (At(t, "peek") \/ At(t, "signal")) /\ Top(t).ctx = c

Prompt == Typed /\ PollersAreWoken /\ SignalsComing

\* A step that leaves its thread neither asleep nor done with a signal, and no slot
\* with more to say.
Mild(t) ==
  /\ \A u \in Threads : u # t => stack'[u] = stack[u]
  /\ ~At(t, "asleep")' /\ ~At(t, "peek") /\ ~At(t, "signal")
Gentle(d) ==
  /\ context[d].pendingDatagrams = 0 => context'[d].pendingDatagrams = 0
  /\ Owes(d)' => Owes(d)

LEMMA Others ==
  ASSUME NEW u \in Threads, stack'[u] = stack[u]
  PROVE  (\A pc : At(u, pc)' <=> At(u, pc)) /\ Top(u)' = Top(u)
  BY DEF At, Top

LEMMA MildStep ==
  ASSUME Prompt, NEW t \in Threads, Mild(t), \A d \in Contexts : Gentle(d), Typed'
  PROVE  Prompt'
<1>1. PollersAreWoken'
  <2> SUFFICES ASSUME NEW u \in Threads, At(u, "asleep")'
               PROVE  context'[Top(u)'.ctx].pendingDatagrams = 0
    BY DEF PollersAreWoken
  <2>1. u # t
    BY DEF Mild
  <2>2. At(u, "asleep") /\ Top(u)' = Top(u)
    BY <2>1, Others DEF Mild
  <2>3. Top(u).ctx \in Contexts
    BY <2>2, Where DEF Prompt, OnPc, FilePc
  <2>4. context[Top(u).ctx].pendingDatagrams = 0
    BY <2>2 DEF Prompt, PollersAreWoken
  <2> QED
    BY <2>2, <2>3, <2>4 DEF Gentle
<1>2. SignalsComing'
  <2> SUFFICES ASSUME NEW c \in Contexts, Owes(c)'
               PROVE  \E u \in Threads : (At(u, "peek")' \/ At(u, "signal")') /\ Top(u)'.ctx = c
    BY DEF SignalsComing
  <2>1. PICK u \in Threads : (At(u, "peek") \/ At(u, "signal")) /\ Top(u).ctx = c
    BY DEF Prompt, SignalsComing, Gentle
  <2>2. u # t
    BY <2>1 DEF Mild
  <2> QED
    BY <2>1, <2>2, Others DEF Mild
<1> QED
  BY <1>1, <1>2 DEF Prompt

\* Where a record does not ask for more.
Still(r) == r.pc \notin {"asleep", "peek", "signal"}

LEMMA MildMoves ==
  ASSUME Typed, NEW t \in Threads,
         Idle(t) \/ \E pc : At(t, pc) /\ pc \notin {"peek", "signal"},
         \/ stack' = stack /\ Idle(t)
         \/ Pops(t)
         \/ \E r \in Frames : Turns(t, r) /\ Still(r)
         \/ \E r, q \in Frames : Pushes(t, r, q) /\ Still(q)
  PROVE  Mild(t)
<1>1. ~At(t, "peek") /\ ~At(t, "signal")
  BY DEF Idle, At
<1>2. \A u \in Threads : u # t => stack'[u] = stack[u]
  BY DEF Moves, Pops, Turns, Pushes
<1>3. ~At(t, "asleep")'
  <2>1. CASE stack' = stack /\ Idle(t)
    BY <2>1 DEF Idle, At
  <2>2. CASE Pops(t)
    BY <2>2, TopAfter DEF At, Top, Waits
  <2>3. ASSUME NEW r \in Frames, Turns(t, r), Still(r) PROVE ~At(t, "asleep")'
    BY <2>3, TopAfter DEF At, Top, Still
  <2>4. ASSUME NEW r \in Frames, NEW q \in Frames, Pushes(t, r, q), Still(q)
        PROVE  ~At(t, "asleep")'
    BY <2>4, TopAfter DEF At, Top, Still
  <2> QED
    BY <2>1, <2>2, <2>3, <2>4
<1> QED
  BY <1>1, <1>2, <1>3 DEF Mild

\* Slots that stay, or of which only the count changes.
LEMMA GentleSlots ==
  ASSUME NEW c \in Contexts, Only(c), Gentle(c)
  PROVE  \A d \in Contexts : Gentle(d)
  BY DEF Only, Gentle, Owes

LEMMA GentleCount ==
  ASSUME NEW c \in Contexts, NEW n, Recounted(c, n)
  PROVE  \A d \in Contexts : Gentle(d)
  BY GentleSlots DEF Recounted, Gentle, Owes

LEMMA GentleSame ==
  ASSUME context' = context
  PROVE  \A d \in Contexts : Gentle(d)
  BY DEF Gentle, Owes

LEMMA StillIs ==
  /\ \A c, pc : pc \in {"poll", "map", "copy", "clear", "put"} => Still(On(c, pc))
  /\ \A c : Still(Freeing(c))
  /\ \A i, m : Still(Dispatching(i, m))
  BY DEF Still, On, Freeing, Dispatching

\* Found or not, a search goes on with a dispatch or ends.
LEMMA SearchMild ==
  ASSUME Typed, NEW t \in Threads, Top(t) \in Dispatches, NEW pc, At(t, pc),
         pc \notin {"peek", "signal"},
         \/ \E q \in Targeting : Finds(t, q)
         \/ \E q \in Missing : Misses(t, q)
         \/ context' = context /\ TurnsAway(t)
  PROVE  Mild(t) /\ \A d \in Contexts : Gentle(d)
<1>1. Asks(t) \in Frames /\ Still(Asks(t))
  BY AsksIs DEF Still
<1>2. ASSUME NEW q \in Missing \cup Targeting, NEW c \in Contexts
      PROVE  [Top(t) EXCEPT !.pc = q, !.ctx = c] \in Frames /\ Still([Top(t) EXCEPT !.pc = q, !.ctx = c])
  <2>1. q \in DispatchPc /\ q \notin {"asleep", "peek", "signal"}
    BY DEF Missing, Targeting, DispatchPc
  <2>2. [Top(t) EXCEPT !.pc = q, !.ctx = c] \in Frames
    BY <2>1 DEF Frames, Dispatches
  <2>3. [Top(t) EXCEPT !.pc = q, !.ctx = c].pc = q
    BY DEF Dispatches
  <2> QED
    BY <2>1, <2>2, <2>3 DEF Still
<1>3. ASSUME NEW q \in Targeting, Finds(t, q) PROVE Mild(t) /\ \A d \in Contexts : Gentle(d)
  <2>1. PICK c \in Contexts : /\ Recounted(c, context[c].refCount + 1)
                              /\ Turns(t, [Top(t) EXCEPT !.pc = q, !.ctx = c])
    BY <1>3 DEF Finds
  <2>2. \A d \in Contexts : Gentle(d)
    BY <2>1, GentleCount
  <2> QED
    BY <1>2, <2>1, <2>2, MildMoves
<1>4. ASSUME NEW q \in Missing, Misses(t, q) PROVE Mild(t) /\ \A d \in Contexts : Gentle(d)
  BY <1>2, <1>4, MildMoves, GentleSame DEF Misses
<1>5. CASE context' = context /\ TurnsAway(t)
  BY <1>1, <1>5, MildMoves, GentleSame DEF TurnsAway
<1> QED
  BY <1>3, <1>4, <1>5

LEMMA PromptCall ==
  ASSUME Prompt, NEW t \in Threads, NEW c \in Contexts, Call(t, c)
  PROVE  Prompt'
<1>0. Typed
  BY DEF Prompt
<1>1. ASSUME NEW i \in Ids, NEW p \in Privileges, InitContext(t, c, i, p) PROVE Prompt'
  <2>1. /\ Typed' /\ Idle(t) /\ Turns(t, On(c, "clear")) /\ Only(c)
        /\ context'[c].pendingDatagrams = 0 /\ context'[c].notify = "garbage"
    BY <1>0, <1>1, InitContextIs
  <2>2. On(c, "clear") \in Frames /\ Still(On(c, "clear"))
    BY OnIs, StillIs DEF OnPc
  <2>3. Mild(t)
    BY <1>0, <2>1, <2>2, MildMoves
  <2>4. Gentle(c)
    BY <2>1 DEF Gentle, Owes
  <2> QED
    BY <2>1, <2>3, <2>4, GentleSlots, MildStep
<1>2. ASSUME NEW i \in Ids, NEW n \in Sizes, Send(t, c, i, n) PROVE Prompt'
  <2>1. /\ Typed' /\ Idle(t) /\ context' = context
        /\ \E m \in Messages : Dispatching(i, m) \in Frames /\ Turns(t, Dispatching(i, m))
    BY <1>0, <1>2, SendIs
  <2>2. Mild(t)
    BY <1>0, <2>1, StillIs, MildMoves
  <2> QED
    BY <2>1, <2>2, GentleSame, MildStep
<1>3. ASSUME NEW i \in Ids, AddNotification(t, c, i) \/ RemoveNotification(t, c, i)
      PROVE  Prompt'
  <2>1. /\ Typed' /\ stack' = stack /\ Only(c)
        /\ context'[c].pendingDatagrams = context[c].pendingDatagrams
        /\ context'[c].notify = context[c].notify /\ context'[c].flag = context[c].flag
    BY <1>0, <1>3, NotificationIs
  <2>2. Idle(t)
    BY <1>3 DEF AddNotification, RemoveNotification
  <2>3. Mild(t)
    BY <1>0, <2>1, <2>2, MildMoves
  <2>4. Gentle(c)
    BY <2>1 DEF Gentle, Owes
  <2> QED
    BY <2>1, <2>3, <2>4, GentleSlots, MildStep
<1>4. ASSUME Close(t, c) PROVE Prompt'
  <2>1. Typed' /\ Idle(t) /\ context' = context /\ Turns(t, On(c, "put"))
    BY <1>0, <1>4, CloseIs
  <2>2. On(c, "put") \in Frames /\ Still(On(c, "put"))
    BY OnIs, StillIs DEF OnPc
  <2>3. Mild(t)
    BY <1>0, <2>1, <2>2, MildMoves
  <2> QED
    BY <2>1, <2>3, GentleSame, MildStep
<1>5. ASSUME Dequeue(t, c) PROVE Prompt'
  <2>1. /\ Typed' /\ stack' = stack /\ Only(c)
        /\ context'[c].notify = context[c].notify
        /\ context'[c].flag = (context[c].flag /\ ~(/\ context[c].notify = "mapped"
                                                   /\ context[c].pendingDatagrams <= 1))
        /\ \/ context[c].pendingDatagrams = 0 /\ context'[c].pendingDatagrams = 0
           \/ /\ context[c].pendingDatagrams > 0
              /\ context'[c].pendingDatagrams = context[c].pendingDatagrams - 1
    BY <1>0, <1>5, DequeueIs
  <2>2. Idle(t)
    BY <1>5 DEF Dequeue
  <2>3. Mild(t)
    BY <1>0, <2>1, <2>2, MildMoves
  <2>4. context[c].pendingDatagrams \in Nat /\ context[c].flag \in BOOLEAN
    BY <1>0, SlotIs
  <2>5. Gentle(c)
    <3>1. context[c].pendingDatagrams = 0 => context'[c].pendingDatagrams = 0
      BY <2>1
    <3>2. ASSUME Owes(c)' PROVE Owes(c)
      <4>1. /\ context[c].notify = "mapped" /\ context[c].pendingDatagrams > 1
            /\ ~context'[c].flag
        BY <2>1, <2>4, <3>2 DEF Owes
      <4>2. ~(context[c].pendingDatagrams <= 1) /\ context[c].pendingDatagrams > 0
        BY <2>4, <4>1
      <4> QED
        BY <2>1, <4>1, <4>2, Zenon DEF Owes
    <3> QED
      BY <3>1, <3>2 DEF Gentle
  <2> QED
    BY <2>1, <2>3, <2>5, GentleSlots, MildStep
<1>6. ASSUME Poll(t, c) PROVE Prompt'
  <2>1. Typed' /\ Idle(t) /\ context' = context /\ Turns(t, On(c, "poll"))
    BY <1>0, <1>6, PollIs
  <2>2. On(c, "poll") \in Frames /\ Still(On(c, "poll"))
    BY OnIs, StillIs DEF OnPc, FilePc
  <2>3. Mild(t)
    BY <1>0, <2>1, <2>2, MildMoves
  <2> QED
    BY <2>1, <2>3, GentleSame, MildStep
<1>7. ASSUME SetupNotify(t, c) PROVE Prompt'
  <2>1. Typed' /\ Idle(t) /\ context' = context /\ Turns(t, On(c, "map"))
    BY <1>0, <1>7, SetupNotifyIs
  <2>2. On(c, "map") \in Frames /\ Still(On(c, "map"))
    BY OnIs, StillIs DEF OnPc, FilePc
  <2>3. Mild(t)
    BY <1>0, <2>1, <2>2, MildMoves
  <2> QED
    BY <2>1, <2>3, GentleSame, MildStep
<1> QED
  BY <1>1, <1>2, <1>3, <1>4, <1>5, <1>6, <1>7 DEF Call

\* Calls on files go on ...
LEMMA PromptFile ==
  ASSUME Prompt, NEW t \in Threads,
         \/ InitNotify(t) \/ InitDone(t) \/ InitFaults(t) \/ Put(t)
         \/ PollCheck(t) \/ PollInterrupted(t)
  PROVE  Prompt'
<1>0. Typed
  BY DEF Prompt
<1>1. ASSUME InitNotify(t) PROVE Prompt'
  <2> PICK c : c = Top(t).ctx
    OBVIOUS
  <2>1. /\ Typed' /\ At(t, "clear") /\ c \in Contexts
        /\ Turns(t, On(c, "copy")) /\ Only(c)
        /\ context'[c].pendingDatagrams = context[c].pendingDatagrams
        /\ context'[c].notify = "null"
    BY <1>0, <1>1, InitNotifyIs
  <2>2. On(c, "copy") \in Frames /\ Still(On(c, "copy"))
    BY <2>1, OnIs, StillIs DEF OnPc
  <2>3. Mild(t)
    BY <1>0, <2>1, <2>2, MildMoves
  <2>4. Gentle(c)
    BY <2>1 DEF Gentle, Owes
  <2> QED
    BY <2>1, <2>3, <2>4, GentleSlots, MildStep
<1>2. ASSUME InitDone(t) PROVE Prompt'
  <2>1. Typed' /\ At(t, "copy") /\ Pops(t) /\ context' = context
    BY <1>0, <1>2, InitDoneIs
  <2>2. Mild(t)
    BY <1>0, <2>1, MildMoves
  <2> QED
    BY <2>1, <2>2, GentleSame, MildStep
<1>3. ASSUME InitFaults(t) PROVE Prompt'
  <2>1. /\ Typed' /\ At(t, "copy") /\ Top(t).ctx \in Contexts /\ context' = context
        /\ Turns(t, On(Top(t).ctx, "put"))
    BY <1>0, <1>3, InitFaultsIs
  <2>2. On(Top(t).ctx, "put") \in Frames /\ Still(On(Top(t).ctx, "put"))
    BY <2>1, OnIs, StillIs DEF OnPc
  <2>3. Mild(t)
    BY <1>0, <2>1, <2>2, MildMoves
  <2> QED
    BY <2>1, <2>3, GentleSame, MildStep
<1>4. ASSUME Put(t) PROVE Prompt'
  <2>1. /\ Typed' /\ At(t, "put") /\ Top(t).ctx \in Contexts
        /\ Recounted(Top(t).ctx, context[Top(t).ctx].refCount - 1)
        /\ Turns(t, Freeing(Top(t).ctx)) \/ Pops(t)
    BY <1>0, <1>4, PutIs
  <2>2. Freeing(Top(t).ctx) \in Frames /\ Still(Freeing(Top(t).ctx))
    BY <2>1, FreeingIs, StillIs
  <2>3. Mild(t)
    BY <1>0, <2>1, <2>2, MildMoves
  <2>4. \A d \in Contexts : Gentle(d)
    BY <2>1, GentleCount
  <2> QED
    BY <2>1, <2>3, <2>4, MildStep
<1>5. ASSUME PollInterrupted(t) PROVE Prompt'
  <2>1. Typed' /\ At(t, "asleep") /\ Pops(t) /\ context' = context
    BY <1>0, <1>5, PollInterruptedIs
  <2>2. Mild(t)
    BY <1>0, <2>1, MildMoves
  <2> QED
    BY <2>1, <2>2, GentleSame, MildStep
<1>6. ASSUME PollCheck(t) PROVE Prompt'
  <2> PICK c : c = Top(t).ctx
    OBVIOUS
  <2>1. /\ Typed' /\ At(t, "poll") /\ c \in Contexts /\ context' = context
        /\ Pops(t) \/ (context[c].pendingDatagrams = 0 /\ Turns(t, On(c, "asleep")))
    BY <1>0, <1>6, PollCheckIs
  <2>2. CASE Pops(t)
    <3>1. Mild(t)
      BY <1>0, <2>1, <2>2, MildMoves
    <3> QED
      BY <2>1, <3>1, GentleSame, MildStep
  <2>3. CASE context[c].pendingDatagrams = 0 /\ Turns(t, On(c, "asleep"))
    <3>1. On(c, "asleep") \in Frames /\ On(c, "asleep").ctx = c
      BY <2>1, OnIs DEF OnPc, FilePc
    <3>2. stack'[t] # <<>> /\ Top(t)' = On(c, "asleep")
      BY <1>0, <2>3, <3>1, TopAfter
    <3>3. \A u \in Threads : u # t => stack'[u] = stack[u]
      BY <2>3 DEF Turns, Moves
    <3>4. PollersAreWoken'
      <4> SUFFICES ASSUME NEW u \in Threads, At(u, "asleep")'
                   PROVE  context'[Top(u)'.ctx].pendingDatagrams = 0
        BY DEF PollersAreWoken
      <4>1. CASE u = t
        BY <2>1, <2>3, <3>1, <3>2, <4>1
      <4>2. CASE u # t
        <5>1. At(u, "asleep") /\ Top(u)' = Top(u)
          BY <3>3, <4>2, Others
        <5> QED
          BY <2>1, <5>1 DEF Prompt, PollersAreWoken
      <4> QED
        BY <4>1, <4>2
    <3>5. SignalsComing'
      <4> SUFFICES ASSUME NEW d \in Contexts, Owes(d)'
                   PROVE  \E u \in Threads : (At(u, "peek")' \/ At(u, "signal")') /\ Top(u)'.ctx = d
        BY DEF SignalsComing
      <4>1. PICK u \in Threads : (At(u, "peek") \/ At(u, "signal")) /\ Top(u).ctx = d
        BY <2>1 DEF Prompt, SignalsComing, Owes
      <4>2. u # t
        BY <2>1, <4>1 DEF At
      <4> QED
        BY <3>3, <4>1, <4>2, Others
    <3> QED
      BY <2>1, <3>4, <3>5 DEF Prompt
  <2> QED
    BY <2>1, <2>2, <2>3
<1> QED
  BY <1>1, <1>2, <1>3, <1>4, <1>5, <1>6

\* ... so do dispatches and frees ...
LEMMA PromptDispatch ==
  ASSUME Prompt, NEW t \in Threads,
         \/ Check(t) \/ CheckMissed(t) \/ Checked(t) \/ Get(t) \/ GetMissed(t)
         \/ Refuse(t) \/ ReleaseTarget(t) \/ Scan(t) \/ Fire(t) \/ FreeContext(t)
  PROVE  Prompt'
<1>0. Typed
  BY DEF Prompt
<1>1. ASSUME Check(t) PROVE Prompt'
  <2>1. /\ Typed' /\ At(t, "check") /\ Top(t) \in Dispatches
        /\ \/ Finds(t, "checked")
           \/ Misses(t, "check_missed")
           \/ context' = context /\ TurnsAway(t)
    BY <1>0, <1>1, CheckIs
  <2>2. "checked" \in Targeting /\ "check_missed" \in Missing
    BY DEF Targeting, Missing
  <2> QED
    BY <1>0, <2>1, <2>2, SearchMild, MildStep
<1>2. ASSUME Get(t) PROVE Prompt'
  <2>1. /\ Typed' /\ At(t, "get") /\ Top(t) \in Dispatches
        /\ \/ Finds(t, "enqueue")
           \/ Misses(t, "get_missed")
           \/ context' = context /\ TurnsAway(t)
    BY <1>0, <1>2, GetIs
  <2>2. "enqueue" \in Targeting /\ "get_missed" \in Missing
    BY DEF Targeting, Missing
  <2> QED
    BY <1>0, <2>1, <2>2, SearchMild, MildStep
<1>3. ASSUME CheckMissed(t) \/ GetMissed(t) PROVE Prompt'
  <2>1. /\ Typed' /\ (At(t, "check_missed") \/ At(t, "get_missed"))
        /\ Top(t) \in Dispatches /\ Top(t).ctx \in Contexts /\ context' = context
        /\ \/ Turns(t, [Top(t) EXCEPT !.pc = "checked"])
           \/ Turns(t, [Top(t) EXCEPT !.pc = "enqueue"])
           \/ TurnsAway(t)
    BY <1>0, <1>3, CheckMissedIs, GetMissedIs
  <2>2. \A q \in {"checked", "enqueue"} :
          [Top(t) EXCEPT !.pc = q] \in Frames /\ [Top(t) EXCEPT !.pc = q].pc = q
    BY <2>1 DEF Frames, Dispatches, DispatchPc
  <2>3. Asks(t) \in Frames /\ Still(Asks(t))
    BY <1>0, <2>1, AsksIs DEF Still
  <2>4. Pops(t) \/ \E r \in Frames : Turns(t, r) /\ Still(r)
    BY <2>1, <2>2, <2>3 DEF TurnsAway, Still
  <2>5. Mild(t)
    BY <1>0, <2>1, <2>4, MildMoves
  <2> QED
    BY <2>1, <2>5, GentleSame, MildStep
<1>4. ASSUME Checked(t) PROVE Prompt'
  <2>1. /\ Typed' /\ At(t, "checked") /\ Top(t).ctx \in Contexts /\ Top(t) \in Dispatches
        /\ Recounted(Top(t).ctx, context[Top(t).ctx].refCount - 1)
        /\ \/ Turns(t, Freeing(Top(t).ctx)) \/ Pops(t) \/ Turns(t, Asks(t))
           \/ Pushes(t, Asks(t), Freeing(Top(t).ctx))
    BY <1>0, <1>4, CheckedIs
  <2>2. /\ Freeing(Top(t).ctx) \in Frames /\ Still(Freeing(Top(t).ctx))
        /\ Asks(t) \in Frames /\ Still(Asks(t))
    BY <1>0, <2>1, FreeingIs, StillIs, AsksIs DEF Still
  <2>3. Mild(t)
    BY <1>0, <2>1, <2>2, MildMoves
  <2>4. \A d \in Contexts : Gentle(d)
    BY <2>1, GentleCount
  <2> QED
    BY <2>1, <2>3, <2>4, MildStep
<1>5. ASSUME Refuse(t) PROVE Prompt'
  <2>1. /\ Typed' /\ At(t, "enqueue") /\ Top(t) \in Dispatches /\ context' = context
        /\ Turns(t, [Top(t) EXCEPT !.pc = "release"])
    BY <1>0, <1>5, RefuseIs
  <2>2. Top(t).ctx \in Contexts
    BY <1>0, <2>1, Where DEF Targeting
  <2>3. [Top(t) EXCEPT !.pc = "release"] \in Frames /\ Still([Top(t) EXCEPT !.pc = "release"])
    BY <2>1, <2>2 DEF Frames, Dispatches, DispatchPc, Still
  <2>4. Mild(t)
    BY <1>0, <2>1, <2>3, MildMoves
  <2> QED
    BY <2>1, <2>4, GentleSame, MildStep
<1>6. ASSUME ReleaseTarget(t) PROVE Prompt'
  <2>1. /\ Typed' /\ At(t, "release") /\ Top(t).ctx \in Contexts
        /\ Recounted(Top(t).ctx, context[Top(t).ctx].refCount - 1)
        /\ Turns(t, Freeing(Top(t).ctx)) \/ Pops(t)
    BY <1>0, <1>6, ReleaseTargetIs
  <2>2. Freeing(Top(t).ctx) \in Frames /\ Still(Freeing(Top(t).ctx))
    BY <2>1, FreeingIs, StillIs
  <2>3. Mild(t)
    BY <1>0, <2>1, <2>2, MildMoves
  <2>4. \A d \in Contexts : Gentle(d)
    BY <2>1, GentleCount
  <2> QED
    BY <2>1, <2>3, <2>4, MildStep
<1>7. ASSUME Scan(t) PROVE Prompt'
  <2>1. /\ Typed' /\ At(t, "scan") /\ context' = context
        /\ \E r \in Frames : r.pc = "fire" /\ Turns(t, r)
    BY <1>0, <1>7, ScanIs
  <2>2. Mild(t)
    BY <1>0, <2>1, MildMoves DEF Still
  <2> QED
    BY <2>1, <2>2, GentleSame, MildStep
<1>8. ASSUME Fire(t) PROVE Prompt'
  <2>1. /\ Typed' /\ At(t, "fire") /\ context' = context /\ Top(t) \in Frees
        /\ \E i \in Top(t).todo :
             /\ i \in AnyId /\ Dispatching(i, EventOf(Top(t).ctx)) \in Frames
             /\ Pushes(t, [Top(t) EXCEPT !.todo = @ \ {i}],
                          Dispatching(i, EventOf(Top(t).ctx)))
    BY <1>0, <1>8, FireIs
  <2>2. \A i : [Top(t) EXCEPT !.todo = @ \ {i}] \in Frames
    <3>1. \A i : [Top(t) EXCEPT !.todo = @ \ {i}] \in Frees
      BY <2>1 DEF Frees
    <3> QED
      BY <3>1 DEF Frames, Frees, FreePc, Missing, Targeting
  <2>3. Mild(t)
    BY <1>0, <2>1, <2>2, StillIs, MildMoves
  <2> QED
    BY <2>1, <2>3, GentleSame, MildStep
<1>9. ASSUME FreeContext(t) PROVE Prompt'
  <2> PICK c : c = Top(t).ctx
    OBVIOUS
  <2>1. /\ Typed' /\ At(t, "fire") /\ c \in Contexts /\ Pops(t) /\ Only(c)
        /\ context'[c].pendingDatagrams = 0 /\ context'[c].notify = "garbage"
    BY <1>0, <1>9, FreeContextIs
  <2>2. Mild(t)
    BY <1>0, <2>1, MildMoves
  <2>3. Gentle(c)
    BY <2>1 DEF Gentle, Owes
  <2> QED
    BY <2>1, <2>2, <2>3, GentleSlots, MildStep
<1> QED
  BY <1>1, <1>2, <1>3, <1>4, <1>5, <1>6, <1>7, <1>8, <1>9

\* ... and what pays what is owed, or makes it owed.
LEMMA PromptMap ==
  ASSUME Prompt, NEW t \in Threads, MapBoolPtr(t)
  PROVE  Prompt'
<1>0. Typed
  BY DEF Prompt
<1> PICK c : c = Top(t).ctx
  OBVIOUS
<1>1. /\ Typed' /\ At(t, "map") /\ c \in Contexts /\ Only(c)
      /\ context'[c].pendingDatagrams = context[c].pendingDatagrams
      /\ \/ Turns(t, On(c, "peek"))
         \/ /\ Pops(t) /\ context'[c].notify = context[c].notify
            /\ context'[c].flag = context[c].flag
  BY <1>0, MapBoolPtrIs
<1>2. CASE Turns(t, On(c, "peek"))
  <2>1. On(c, "peek") \in Frames /\ On(c, "peek").pc = "peek" /\ On(c, "peek").ctx = c
    BY <1>1, OnIs DEF OnPc, FilePc
  <2>2. stack'[t] # <<>> /\ Top(t)' = On(c, "peek")
    BY <1>0, <1>2, <2>1, TopAfter
  <2>3. At(t, "peek")' /\ ~At(t, "asleep")'
    BY <2>1, <2>2 DEF At, Top
  <2>4. \A u \in Threads : u # t => stack'[u] = stack[u]
    BY <1>2 DEF Turns, Moves
  <2>5. PollersAreWoken'
    <3> SUFFICES ASSUME NEW u \in Threads, At(u, "asleep")'
                 PROVE  context'[Top(u)'.ctx].pendingDatagrams = 0
      BY DEF PollersAreWoken
    <3>1. At(u, "asleep") /\ Top(u)' = Top(u)
      BY <2>3, <2>4, Others
    <3>2. context[Top(u).ctx].pendingDatagrams = 0 /\ Top(u).ctx \in Contexts
      BY <1>0, <3>1, Where DEF Prompt, PollersAreWoken, OnPc, FilePc
    <3> QED
      BY <1>1, <3>1, <3>2 DEF Only
  <2>6. SignalsComing'
    <3> SUFFICES ASSUME NEW d \in Contexts, Owes(d)'
                 PROVE  \E u \in Threads : (At(u, "peek")' \/ At(u, "signal")') /\ Top(u)'.ctx = d
      BY DEF SignalsComing
    <3>1. CASE d = c
      BY <2>1, <2>2, <2>3, <3>1
    <3>2. CASE d # c
      <4>1. PICK u \in Threads : (At(u, "peek") \/ At(u, "signal")) /\ Top(u).ctx = d
        BY <1>1, <3>2 DEF Prompt, SignalsComing, Owes, Only
      <4>2. u # t
        BY <1>1, <4>1 DEF At
      <4> QED
        BY <2>4, <4>1, <4>2, Others
    <3> QED
      BY <3>1, <3>2
  <2> QED
    BY <1>1, <2>5, <2>6 DEF Prompt
<1>3. CASE /\ Pops(t) /\ context'[c].notify = context[c].notify
           /\ context'[c].flag = context[c].flag
  <2>1. Mild(t)
    BY <1>0, <1>1, <1>3, MildMoves
  <2>2. Gentle(c)
    BY <1>1, <1>3 DEF Gentle, Owes
  <2> QED
    BY <1>1, <2>1, <2>2, GentleSlots, MildStep
<1> QED
  BY <1>1, <1>2, <1>3

LEMMA PromptPeek ==
  ASSUME Prompt, NEW t \in Threads, CheckPending(t)
  PROVE  Prompt'
<1>0. Typed
  BY DEF Prompt
<1> PICK c : c = Top(t).ctx
  OBVIOUS
<1>1. /\ Typed' /\ At(t, "peek") /\ c \in Contexts /\ context' = context
      /\ \/ context[c].pendingDatagrams = 0 /\ Pops(t)
         \/ Turns(t, On(c, "signal"))
  BY <1>0, CheckPendingIs
<1>2. \A u \in Threads : u # t => stack'[u] = stack[u]
  BY <1>1 DEF Pops, Turns, Moves
<1>3. /\ On(c, "signal") \in Frames /\ On(c, "signal").pc = "signal" /\ On(c, "signal").ctx = c
  BY <1>1, OnIs DEF OnPc, FilePc
<1>4. \/ context[c].pendingDatagrams = 0 /\ Pops(t)
      \/ At(t, "signal")' /\ Top(t)'.ctx = c
  BY <1>0, <1>1, <1>3, TopAfter DEF At, Top
<1>5. ~At(t, "asleep")'
  BY <1>0, <1>1, <1>3, TopAfter DEF At, Top, Waits
<1>6. PollersAreWoken'
  <2> SUFFICES ASSUME NEW u \in Threads, At(u, "asleep")'
               PROVE  context'[Top(u)'.ctx].pendingDatagrams = 0
    BY DEF PollersAreWoken
  <2>1. At(u, "asleep") /\ Top(u)' = Top(u)
    BY <1>2, <1>5, Others
  <2> QED
    BY <1>1, <2>1 DEF Prompt, PollersAreWoken
<1>7. SignalsComing'
  <2> SUFFICES ASSUME NEW d \in Contexts, Owes(d)'
               PROVE  \E u \in Threads : (At(u, "peek")' \/ At(u, "signal")') /\ Top(u)'.ctx = d
    BY DEF SignalsComing
  <2>1. Owes(d) /\ context[d].pendingDatagrams # 0
    BY <1>0, <1>1, SlotIs DEF Owes
  <2>2. PICK u \in Threads : (At(u, "peek") \/ At(u, "signal")) /\ Top(u).ctx = d
    BY <2>1 DEF Prompt, SignalsComing
  <2>3. CASE u = t
    BY <1>4, <2>1, <2>2, <2>3
  <2>4. CASE u # t
    BY <1>2, <2>2, <2>4, Others
  <2> QED
    BY <2>3, <2>4
<1> QED
  BY <1>1, <1>6, <1>7 DEF Prompt

LEMMA PromptSignal ==
  ASSUME Prompt, NEW t \in Threads, SignalNotify(t)
  PROVE  Prompt'
<1>0. Typed
  BY DEF Prompt
<1> PICK c : c = Top(t).ctx
  OBVIOUS
<1>1. /\ Typed' /\ At(t, "signal") /\ c \in Contexts /\ Pops(t) /\ Only(c)
      /\ context'[c] = Signalled(context[c])
  BY <1>0, SignalNotifyIs
<1>2. \A u \in Threads : u # t => stack'[u] = stack[u]
  BY <1>1 DEF Pops, Moves
<1>3. ~At(t, "asleep")'
  BY <1>0, <1>1, TopAfter DEF At, Top, Waits
<1>4. /\ context'[c].pendingDatagrams = context[c].pendingDatagrams
      /\ ~Owes(c)'
  BY <1>0, <1>1, SlotIs DEF Signalled, Slots, Owes
<1>5. PollersAreWoken'
  <2> SUFFICES ASSUME NEW u \in Threads, At(u, "asleep")'
               PROVE  context'[Top(u)'.ctx].pendingDatagrams = 0
    BY DEF PollersAreWoken
  <2>1. At(u, "asleep") /\ Top(u)' = Top(u)
    BY <1>2, <1>3, Others
  <2>2. context[Top(u).ctx].pendingDatagrams = 0 /\ Top(u).ctx \in Contexts
    BY <1>0, <2>1, Where DEF Prompt, PollersAreWoken, OnPc, FilePc
  <2> QED
    BY <1>1, <1>4, <2>1, <2>2 DEF Only
<1>6. SignalsComing'
  <2> SUFFICES ASSUME NEW d \in Contexts, Owes(d)'
               PROVE  \E u \in Threads : (At(u, "peek")' \/ At(u, "signal")') /\ Top(u)'.ctx = d
    BY DEF SignalsComing
  <2>1. d # c
    BY <1>4
  <2>2. PICK u \in Threads : (At(u, "peek") \/ At(u, "signal")) /\ Top(u).ctx = d
    BY <1>1, <2>1 DEF Prompt, SignalsComing, Owes, Only
  <2>3. u # t
    BY <2>1, <2>2
  <2> QED
    BY <1>2, <2>2, <2>3, Others
<1> QED
  BY <1>1, <1>5, <1>6 DEF Prompt

\* Who is woken is not asleep; everybody else is as he was.
LEMMA PromptEnqueue ==
  ASSUME Prompt, NEW t \in Threads, Enqueue(t)
  PROVE  Prompt'
<1>0. Typed
  BY DEF Prompt
<1> PICK c : c = Top(t).ctx
  OBVIOUS
<1> PICK r : r = [Top(t) EXCEPT !.pc = "release"]
  OBVIOUS
<1>1. /\ Typed' /\ At(t, "enqueue") /\ Top(t) \in Dispatches /\ c \in Contexts /\ Only(c)
      /\ context'[c].notify = context[c].notify
      /\ context'[c].flag = (context[c].flag \/ context[c].notify = "mapped")
      /\ r \in Frames /\ Wakes(t, c, r)
  BY <1>0, EnqueueIs
<1>2. stack'[t] # <<>> /\ Top(t)'.pc = "release"
  <2>1. Kept(t) \in Nat /\ Len(stack'[t]) = Kept(t) + 1 /\ stack'[t] \in Seq(Frames)
        /\ stack'[t][Kept(t) + 1] = r
    BY <1>0, <1>1, Tops DEF Wakes
  <2>2. stack'[t] # <<>> /\ Top(t)' = r
    BY <2>1 DEF Top, Last
  <2> QED
    BY <1>1, <2>2 DEF Dispatches
<1>3. ASSUME NEW u \in Threads, u # t, Sleeps(u, c)
      PROVE  stack'[u] # <<>> /\ Top(u)'.pc = "poll"
  <2>1. Kept(u) \in Nat /\ Len(stack'[u]) = Kept(u) + 1 /\ stack'[u] \in Seq(Frames)
        /\ stack'[u][Kept(u) + 1] = On(c, "poll")
    BY <1>0, <1>1, <1>3, Tops DEF Wakes
  <2>2. stack'[u] # <<>> /\ Top(u)' = On(c, "poll")
    BY <2>1 DEF Top, Last
  <2> QED
    BY <2>2 DEF On
<1>4. ASSUME NEW u \in Threads, u # t, ~Sleeps(u, c) PROVE stack'[u] = stack[u]
  BY <1>1, <1>4 DEF Wakes
<1>5. PollersAreWoken'
  <2> SUFFICES ASSUME NEW u \in Threads, At(u, "asleep")'
               PROVE  context'[Top(u)'.ctx].pendingDatagrams = 0
    BY DEF PollersAreWoken
  <2>1. u # t /\ ~Sleeps(u, c)
    BY <1>2, <1>3 DEF At, Top
  <2>2. At(u, "asleep") /\ Top(u)' = Top(u)
    BY <1>4, <2>1, Others
  <2>3. Top(u).ctx # c
    BY <2>1, <2>2 DEF Sleeps
  <2>4. context[Top(u).ctx].pendingDatagrams = 0 /\ Top(u).ctx \in Contexts
    BY <1>0, <2>2, Where DEF Prompt, PollersAreWoken, OnPc, FilePc
  <2> QED
    BY <1>1, <2>2, <2>3, <2>4 DEF Only
<1>6. SignalsComing'
  <2> SUFFICES ASSUME NEW d \in Contexts, Owes(d)'
               PROVE  \E u \in Threads : (At(u, "peek")' \/ At(u, "signal")') /\ Top(u)'.ctx = d
    BY DEF SignalsComing
  <2>1. d # c
    BY <1>1 DEF Owes
  <2>2. PICK u \in Threads : (At(u, "peek") \/ At(u, "signal")) /\ Top(u).ctx = d
    BY <1>1, <2>1 DEF Prompt, SignalsComing, Owes, Only
  <2>3. u # t /\ ~Sleeps(u, c)
    BY <1>1, <2>2 DEF At, Sleeps
  <2> QED
    BY <1>4, <2>2, <2>3, Others
<1> QED
  BY <1>1, <1>5, <1>6 DEF Prompt

LEMMA PromptNext ==
  ASSUME Prompt, [Next]_vars
  PROVE  Prompt'
<1>1. CASE UNCHANGED vars
  <2>1. Typed'
    BY <1>1 DEF vars, Prompt, Typed
  <2>2. PollersAreWoken' /\ SignalsComing'
    BY <1>1 DEF vars, Prompt, PollersAreWoken, SignalsComing, At, Top, Owes
  <2> QED
    BY <2>1, <2>2 DEF Prompt
<1>2. ASSUME NEW t \in Threads, NEW c \in Contexts, Call(t, c) PROVE Prompt'
  BY <1>2, PromptCall
<1>3. ASSUME NEW t \in Threads, Continue(t) \/ PollInterrupted(t) PROVE Prompt'
  BY <1>3, PromptFile, PromptDispatch, PromptMap, PromptPeek, PromptSignal, PromptEnqueue
     DEF Continue
<1> QED
  BY <1>1, <1>2, <1>3 DEF Next

LEMMA PromptInit ==
  ASSUME Init
  PROVE  Prompt
<1>1. \A t \in Threads : stack[t] = <<>> /\ Len(stack[t]) = 0
  BY DEF Init
<1>2. stack \in [Threads -> Seq(Frames)] /\ contextList \in Seq(Contexts) /\ open \subseteq Contexts
  BY DEF Init
<1>3. \A c \in Contexts : context[c] = Fresh
  BY DEF Init
<1>4. context \in [Contexts -> Slots]
  BY FreshIs DEF Init
<1>5. Fresh.pendingDatagrams = 0 /\ Len(Fresh.datagramQueue) = 0
  BY DEF Fresh
<1>6. \A t \in Threads : \A n \in 1..(Len(stack[t]) - 1) : Waits(stack[t][n])
  BY <1>1
<1>7. Typed
  BY <1>2, <1>3, <1>4, <1>5, <1>6 DEF Typed
<1>8. PollersAreWoken /\ SignalsComing
  BY <1>1, <1>3, <1>5 DEF PollersAreWoken, SignalsComing, At, Owes
<1> QED
  BY <1>7, <1>8 DEF Prompt

LEMMA PromptAlways == Spec => []Prompt
<1>1. Init => Prompt
  BY PromptInit
<1>2. Prompt /\ [Next]_vars => Prompt'
  BY PromptNext
<1> QED
  BY <1>1, <1>2, PTL DEF Spec

\* However sends, receives and polls interleave, nobody sleeps in LinuxDriverPoll
\* on a context that has datagrams for it: the counter is raised and the sleepers
\* woken in one step of the context's lock, and who is not asleep looks again.
THEOREM SleepersAreWoken == Spec => []PollersAreWoken
<1>1. Prompt => PollersAreWoken
  BY DEF Prompt
<1> QED
  BY <1>1, PromptAlways, PTL

\* Once VMCISetupNotify is through, the user's flag is set while datagrams are
\* pending, also where two threads set it up for one context: whoever cleared the
\* flag has yet to look at the counter.
THEOREM FlagFollowsQueue == Spec => []NotifyWhilePending
<1>1. Prompt => NotifyWhilePending
  <2> SUFFICES ASSUME Prompt, NEW c \in Contexts, context[c].notify = "mapped",
                      context[c].pendingDatagrams > 0, \A t \in Threads : ~SettingUp(t, c)
               PROVE  context[c].flag
    BY DEF NotifyWhilePending
  <2>1. Owes(c) => FALSE
    BY DEF Prompt, SignalsComing, SettingUp
  <2> QED
    BY <2>1 DEF Owes
<1> QED
  BY <1>1, PromptAlways, PTL

-----------------------------------------------------------------------------
(* Records that matter to other contexts *)

\* Calls of the owner that neither hold nor free.
Plain == FilePc \cup {"clear", "copy"}
Has(u, n, r) == n \in 1..Len(stack[u]) /\ stack[u][n] = r /\ r.pc \notin Plain

\* The place of a thread's record; the step puts a there and b on top.
Place(t) == <<t, Kept(t) + 1>>
Becomes(t, a, b) ==
  \A u \in Threads : \A n, r :
    Has(u, n, r)' <=> \/ Has(u, n, r) /\ <<u, n>> # Place(t)
                      \/ <<u, n>> = Place(t) /\ r \in a
                      \/ u = t /\ n = Kept(t) + 2 /\ r \in b
SameRecords == \A u \in Threads : \A n, r : Has(u, n, r)' <=> Has(u, n, r)

LEMMA HasTop ==
  ASSUME Typed, NEW t \in Threads
  PROVE  /\ \A r : Has(t, Kept(t) + 1, r) <=> (~Idle(t) /\ r = Top(t) /\ r.pc \notin Plain)
         /\ \A n, r : Has(t, n, r) => n \in 1..(Kept(t) + 1)
<1>1. CASE stack[t] = <<>>
  BY <1>1, Tops DEF Has, Idle
<1>2. CASE stack[t] # <<>>
  BY <1>2, Tops DEF Has, Idle
<1> QED
  BY <1>1, <1>2

LEMMA HasKind ==
  ASSUME Typed, NEW u \in Threads, NEW n, NEW r, Has(u, n, r)
  PROVE  r \in Frames /\ n \in Nat /\ n > 0
  BY Tops DEF Has

\* What a step of one thread does to the records of all.
LEMMA BecomesIs ==
  ASSUME Typed, NEW t \in Threads, NEW k,
         stack' \in [Threads -> Seq(Frames)],
         \A n \in 1..Kept(t) : stack'[t][n] = stack[t][n],
         k \in {Kept(t), Kept(t) + 1, Kept(t) + 2}, Len(stack'[t]) = k,
         \A u \in Threads : u # t => \A n, r : Has(u, n, r)' <=> Has(u, n, r)
  PROVE  Becomes(t, {r \in {stack'[t][Kept(t) + 1]} : k > Kept(t) /\ r.pc \notin Plain},
                    {r \in {stack'[t][Kept(t) + 2]} : k > Kept(t) + 1 /\ r.pc \notin Plain})
<1>1. Kept(t) \in Nat
  BY Tops
<1>2. ASSUME NEW u \in Threads, NEW n, NEW r
      PROVE  Has(u, n, r)' <=>
               \/ Has(u, n, r) /\ <<u, n>> # Place(t)
               \/ /\ <<u, n>> = Place(t)
                  /\ r = stack'[t][Kept(t) + 1] /\ k > Kept(t) /\ r.pc \notin Plain
               \/ /\ u = t /\ n = Kept(t) + 2
                  /\ r = stack'[t][Kept(t) + 2] /\ k > Kept(t) + 1 /\ r.pc \notin Plain
  <2>1. CASE u # t
    BY <2>1 DEF Place
  <2>2. CASE u = t
    <3>1. Has(t, n, r)' <=> n \in 1..k /\ stack'[t][n] = r /\ r.pc \notin Plain
      BY DEF Has
    <3>2. CASE n \in 1..Kept(t)
      <4>1. n \in 1..k /\ n # Kept(t) + 1 /\ n # Kept(t) + 2 /\ n \in 1..Len(stack[t])
        BY <1>1, <3>2, Tops
      <4> QED
        BY <2>2, <3>1, <3>2, <4>1 DEF Has, Place
    <3>3. CASE n = Kept(t) + 1
      <4>1. n \in 1..k <=> k > Kept(t)
        BY <1>1, <3>3
      <4>2. n # Kept(t) + 2
        BY <1>1, <3>3
      <4> QED
        BY <2>2, <3>1, <3>3, <4>1, <4>2 DEF Place
    <3>4. CASE n = Kept(t) + 2
      <4>1. n \in 1..k <=> k > Kept(t) + 1
        BY <1>1, <3>4
      <4>2. n # Kept(t) + 1 /\ n \notin 1..(Kept(t) + 1)
        BY <1>1, <3>4
      <4>3. ~Has(t, n, r)
        BY <4>2, HasTop
      <4> QED
        BY <2>2, <3>1, <3>4, <4>1, <4>2, <4>3 DEF Place
    <3>5. CASE n \notin 1..(Kept(t) + 2)
      <4>1. n \notin 1..k /\ n \notin 1..(Kept(t) + 1) /\ n # Kept(t) + 1 /\ n # Kept(t) + 2
        BY <1>1, <3>5
      <4>2. ~Has(t, n, r)
        BY <4>1, HasTop
      <4> QED
        BY <2>2, <3>1, <4>1, <4>2 DEF Place
    <3>6. n \in 1..(Kept(t) + 2) => n \in 1..Kept(t) \/ n = Kept(t) + 1 \/ n = Kept(t) + 2
      BY <1>1
    <3> QED
      BY <3>2, <3>3, <3>4, <3>5, <3>6
  <2> QED
    BY <2>1, <2>2
<1> QED
  BY <1>2 DEF Becomes

LEMMA MovesOthers ==
  ASSUME NEW t \in Threads, \A u \in Threads : u # t => stack'[u] = stack[u]
  PROVE  \A u \in Threads : u # t => \A n, r : Has(u, n, r)' <=> Has(u, n, r)
  BY DEF Has

LEMMA PopsRecords ==
  ASSUME Typed, NEW t \in Threads, Pops(t)
  PROVE  Becomes(t, {}, {})
<1> PICK k : k = Kept(t)
  OBVIOUS
<1>1. k \in Nat /\ k \in {Kept(t), Kept(t) + 1, Kept(t) + 2}
  BY Tops
<1>2. /\ stack' \in [Threads -> Seq(Frames)] /\ Len(stack'[t]) = k
      /\ \A n \in 1..Kept(t) : stack'[t][n] = stack[t][n]
      /\ \A u \in Threads : u # t => stack'[u] = stack[u]
  BY DEF Pops, Moves
<1>3. Becomes(t, {r \in {stack'[t][Kept(t) + 1]} : k > Kept(t) /\ r.pc \notin Plain},
                 {r \in {stack'[t][Kept(t) + 2]} : k > Kept(t) + 1 /\ r.pc \notin Plain})
  BY <1>1, <1>2, MovesOthers, BecomesIs
<1>4. ~(k > Kept(t)) /\ ~(k > Kept(t) + 1)
  BY <1>1
<1> QED
  BY <1>3, <1>4 DEF Becomes

LEMMA TurnsRecords ==
  ASSUME Typed, NEW t \in Threads, NEW r \in Frames, Turns(t, r)
  PROVE  /\ r.pc \notin Plain => Becomes(t, {r}, {})
         /\ r.pc \in Plain => Becomes(t, {}, {})
<1> PICK k : k = Kept(t) + 1
  OBVIOUS
<1>1. k \in Nat /\ k \in {Kept(t), Kept(t) + 1, Kept(t) + 2}
  BY Tops
<1>2. /\ stack' \in [Threads -> Seq(Frames)] /\ Len(stack'[t]) = k
      /\ \A n \in 1..Kept(t) : stack'[t][n] = stack[t][n]
      /\ \A u \in Threads : u # t => stack'[u] = stack[u]
      /\ stack'[t][Kept(t) + 1] = r
  BY DEF Turns, Moves
<1>3. Becomes(t, {q \in {stack'[t][Kept(t) + 1]} : k > Kept(t) /\ q.pc \notin Plain},
                 {q \in {stack'[t][Kept(t) + 2]} : k > Kept(t) + 1 /\ q.pc \notin Plain})
  BY <1>1, <1>2, MovesOthers, BecomesIs
<1>4. k > Kept(t) /\ ~(k > Kept(t) + 1)
  BY <1>1, Tops
<1> QED
  BY <1>2, <1>3, <1>4 DEF Becomes

LEMMA PushesRecords ==
  ASSUME Typed, NEW t \in Threads, NEW r \in Frames, NEW q \in Frames, Pushes(t, r, q),
         r.pc \notin Plain, q.pc \notin Plain
  PROVE  Becomes(t, {r}, {q})
<1> PICK k : k = Kept(t) + 2
  OBVIOUS
<1>1. k \in Nat /\ k \in {Kept(t), Kept(t) + 1, Kept(t) + 2}
  BY Tops
<1>2. /\ stack' \in [Threads -> Seq(Frames)] /\ Len(stack'[t]) = k
      /\ \A n \in 1..Kept(t) : stack'[t][n] = stack[t][n]
      /\ \A u \in Threads : u # t => stack'[u] = stack[u]
      /\ stack'[t][Kept(t) + 1] = r /\ stack'[t][Kept(t) + 2] = q
  BY DEF Pushes, Moves
<1>3. Becomes(t, {p \in {stack'[t][Kept(t) + 1]} : k > Kept(t) /\ p.pc \notin Plain},
                 {p \in {stack'[t][Kept(t) + 2]} : k > Kept(t) + 1 /\ p.pc \notin Plain})
  BY <1>1, <1>2, MovesOthers, BecomesIs
<1>4. k > Kept(t) /\ k > Kept(t) + 1
  BY <1>1, Tops
<1> QED
  BY <1>2, <1>3, <1>4 DEF Becomes

LEMMA WakesRecords ==
  ASSUME Typed, NEW t \in Threads, NEW c \in Contexts, NEW r \in Frames, Wakes(t, c, r),
         r.pc \notin Plain
  PROVE  Becomes(t, {r}, {})
<1> PICK k : k = Kept(t) + 1
  OBVIOUS
<1>1. k \in Nat /\ k \in {Kept(t), Kept(t) + 1, Kept(t) + 2}
  BY Tops
<1>2. /\ stack' \in [Threads -> Seq(Frames)] /\ Len(stack'[t]) = k
      /\ \A n \in 1..Kept(t) : stack'[t][n] = stack[t][n]
      /\ stack'[t][Kept(t) + 1] = r
  BY DEF Wakes
<1>3. ASSUME NEW u \in Threads, u # t, NEW n, NEW q
      PROVE  Has(u, n, q)' <=> Has(u, n, q)
  <2>1. CASE ~Sleeps(u, c)
    BY <1>3, <2>1 DEF Wakes, Has
  <2>2. CASE Sleeps(u, c)
    <3>1. /\ Len(stack'[u]) = Kept(u) + 1 /\ stack'[u][Kept(u) + 1] = On(c, "poll")
          /\ \A m \in 1..Kept(u) : stack'[u][m] = stack[u][m]
      BY <1>3, <2>2 DEF Wakes
    <3>2. /\ Len(stack[u]) = Kept(u) + 1 /\ stack[u][Kept(u) + 1].pc = "asleep"
          /\ Kept(u) \in Nat
      BY <2>2, Tops DEF Sleeps, At, Top
    <3>3. On(c, "poll").pc \in Plain /\ stack[u][Kept(u) + 1].pc \in Plain
      BY <3>2 DEF Plain, On, FilePc
    <3>4. CASE n \in 1..Kept(u)
      <4>1. stack'[u][n] = stack[u][n]
        BY <3>1, <3>4
      <4> QED
        BY <3>1, <3>2, <4>1 DEF Has
    <3>5. CASE n = Kept(u) + 1
      BY <3>1, <3>3, <3>5 DEF Has
    <3>6. CASE n \notin 1..(Kept(u) + 1)
      BY <3>1, <3>2, <3>6 DEF Has
    <3>7. n \in 1..(Kept(u) + 1) => n \in 1..Kept(u) \/ n = Kept(u) + 1
      BY <3>2
    <3> QED
      BY <3>4, <3>5, <3>6, <3>7
  <2> QED
    BY <2>1, <2>2
<1>4. Becomes(t, {q \in {stack'[t][Kept(t) + 1]} : k > Kept(t) /\ q.pc \notin Plain},
                 {q \in {stack'[t][Kept(t) + 2]} : k > Kept(t) + 1 /\ q.pc \notin Plain})
  BY <1>1, <1>2, <1>3, BecomesIs
<1>5. k > Kept(t) /\ ~(k > Kept(t) + 1)
  BY <1>1, Tops
<1> QED
  BY <1>2, <1>4, <1>5 DEF Becomes

LEMMA PlainRecords ==
  ASSUME Typed, NEW t \in Threads, Idle(t) \/ Top(t).pc \in Plain, Becomes(t, {}, {})
  PROVE  SameRecords
  BY HasTop DEF SameRecords, Becomes, Place

LEMMA QuietRecords ==
  ASSUME stack' = stack
  PROVE  SameRecords
  BY DEF SameRecords, Has

-----------------------------------------------------------------------------
(* The kinds of steps, as far as references, events and privileges go *)

Settled == \A d \in Contexts : Unmoved(d)
Owns(c) ==
  Only(c) /\ context'[c].cid = context[c].cid /\ context'[c].priv = context[c].priv

\* The record of a dispatch that goes on.
MovesOn(t, q, pc) ==
  /\ q \in Frames /\ q \in Dispatches /\ q.pc = pc
  /\ q.to = Top(t).to /\ q.msg = Top(t).msg
DispatchAt(t, S) == ~Idle(t) /\ Top(t) \in Dispatches /\ Top(t).pc \in S

Quiet == SameRecords /\ Settled /\ contextList' = contextList

Takes(c) ==
  /\ SameRecords /\ contextList' = contextList /\ Owns(c)
  /\ context'[c].allocated = context[c].allocated
  /\ context'[c].refCount = context[c].refCount
  /\ \/ context'[c].datagramQueue = context[c].datagramQueue
     \/ /\ context[c].datagramQueue # <<>>
        /\ context'[c].datagramQueue = Tail(context[c].datagramQueue)

Begins(c) ==
  /\ SameRecords /\ Only(c)
  /\ contextList' = Append(contextList, c)
  /\ ~context[c].allocated /\ context'[c].allocated
  /\ ReuseMemory \/ context[c].cid = NoId
  /\ \E i \in Ids :
       /\ context'[c].cid = i /\ context'[c].refCount = 1 /\ context'[c].datagramQueue = <<>>
       /\ ReuseIds \/ \A d \in Contexts : context[d].cid # i

Sends(t) ==
  /\ Idle(t) /\ Settled /\ contextList' = contextList
  /\ \E q \in Frames :
       /\ q \in Dispatches /\ q.pc \in {"get", "check"} /\ ~IsEvent(q.msg) /\ q.to \in Ids
       /\ q.pc = "get" => context[q.msg.from].cid = q.to
       /\ Becomes(t, {q}, {})

Leaves(t, c) ==
  /\ Idle(t) \/ Top(t).pc \in Plain
  /\ Settled /\ Unlists(c) /\ Becomes(t, {On(c, "put")}, {})

Drops(t, c) ==
  /\ ~Idle(t) /\ Top(t).pc \in {"put", "release", "checked"} /\ Top(t).ctx = c
  /\ contextList' = contextList /\ Recounted(c, context[c].refCount - 1)
  /\ \/ context[c].refCount = 1 /\ Becomes(t, {Freeing(c)}, {})
     \/ context[c].refCount # 1 /\ Becomes(t, {}, {})
     \/ \E q : /\ DispatchAt(t, {"checked"}) /\ MovesOn(t, q, "get")
               /\ ~DenyInteraction(Top(t).msg.priv, context[c].priv)
               /\ \/ context[c].refCount = 1 /\ Becomes(t, {q}, {Freeing(c)})
                  \/ context[c].refCount # 1 /\ Becomes(t, {q}, {})

Gets(t, c) ==
  /\ c \in Range(contextList) /\ context[c].cid = Top(t).to
  /\ contextList' = contextList /\ Recounted(c, context[c].refCount + 1)
  /\ \E q : /\ q.ctx = c /\ Becomes(t, {q}, {})
            /\ \/ DispatchAt(t, {"check"}) /\ MovesOn(t, q, "checked")
               \/ DispatchAt(t, {"get"}) /\ MovesOn(t, q, "enqueue")

Looks(t, c) ==
  /\ c \in Range(contextList) /\ ~Exists(Top(t).to)
  /\ contextList' = contextList /\ Settled
  /\ \E q : /\ q.ctx = c /\ Becomes(t, {q}, {})
            /\ \/ DispatchAt(t, {"check"}) /\ MovesOn(t, q, "check_missed")
               \/ DispatchAt(t, {"get"}) /\ MovesOn(t, q, "get_missed")

GivesUp(t) ==
  /\ DispatchAt(t, {"check", "check_missed", "get", "get_missed"})
  /\ contextList' = contextList /\ Settled
  /\ \/ Becomes(t, {}, {})
     \/ \E q : /\ ~DenyInteraction(Top(t).msg.priv, "restricted")
               /\ MovesOn(t, q, "get") /\ Becomes(t, {q}, {})

\* The comparison finds another context in the memory than the scan left there.
Mistakes(t) ==
  /\ DispatchAt(t, Missing) /\ Top(t).ctx \in Contexts /\ context[Top(t).ctx].cid = Top(t).to
  /\ "unreferenced" \in oops'

Refuses(t) ==
  /\ DispatchAt(t, {"enqueue"}) /\ contextList' = contextList /\ Settled
  /\ \E q : MovesOn(t, q, "release") /\ q.ctx = Top(t).ctx /\ Becomes(t, {q}, {})

Delivers(t, c) ==
  /\ DispatchAt(t, {"enqueue"}) /\ contextList' = contextList /\ Owns(c)
  /\ Top(t).ctx = c
  /\ context'[c].allocated = context[c].allocated
  /\ context'[c].refCount = context[c].refCount
  /\ context'[c].datagramQueue = Append(context[c].datagramQueue, Top(t).msg)
  /\ \E q : MovesOn(t, q, "release") /\ q.ctx = c /\ Becomes(t, {q}, {})

FreesAt(t, pc, c) == ~Idle(t) /\ Top(t) \in Frees /\ Top(t).pc = pc /\ Top(t).ctx = c

Scans(t, c) ==
  /\ FreesAt(t, "scan", c) /\ contextList' = contextList /\ Settled
  /\ \E q \in Frames :
       /\ q \in Frees /\ q.pc = "fire" /\ q.ctx = c
       /\ q.todo = {context[d].cid : d \in Subscribers(c)}
       /\ Becomes(t, {q}, {})

Fires(t, c) ==
  /\ FreesAt(t, "fire", c) /\ contextList' = contextList /\ Settled
  /\ \E i \in Top(t).todo : \E q, e \in Frames :
       /\ q \in Frees /\ q.pc = "fire" /\ q.ctx = c /\ q.todo = Top(t).todo \ {i}
       /\ e \in Dispatches /\ e.pc = "check" /\ e.to = i /\ e.msg = EventOf(c)
       /\ Becomes(t, {q}, {e})

GivesBack(t, c) ==
  /\ FreesAt(t, "fire", c) /\ contextList' = contextList /\ Owns(c)
  /\ ~context'[c].allocated
  /\ context'[c].refCount = 0 /\ context'[c].datagramQueue = <<>>
  /\ Becomes(t, {}, {})

Kind(t) ==
  \/ Quiet \/ Sends(t) \/ GivesUp(t) \/ Mistakes(t) \/ Refuses(t)
  \/ \E c \in Contexts :
       \/ Takes(c) \/ Begins(c) \/ Leaves(t, c) \/ Drops(t, c) \/ Gets(t, c) \/ Looks(t, c)
       \/ Delivers(t, c) \/ Scans(t, c) \/ Fires(t, c) \/ GivesBack(t, c)

LEMMA OnPlain ==
  ASSUME NEW c, NEW pc
  PROVE  On(c, pc).pc = pc /\ (pc \in FilePc \cup {"clear", "copy"} => On(c, pc).pc \in Plain)
  BY DEF On, Plain

LEMMA PlainIs ==
  /\ Plain \cap DispatchPc = {} /\ Plain \cap FreePc = {} /\ "put" \notin Plain
  /\ Plain \subseteq OnPc
  BY DEF Plain, DispatchPc, FreePc, FilePc, OnPc

LEMMA CountSettles ==
  ASSUME context' = context
  PROVE  Settled
  BY DEF Settled, Unmoved

LEMMA OneSettles ==
  ASSUME NEW c \in Contexts, Only(c), Unmoved(c)
  PROVE  Settled
  BY DEF Settled, Only, Unmoved

\* A thread on a file that turns to a plain record, or to none.
LEMMA QuietMoves ==
  ASSUME Typed, NEW t \in Threads, Idle(t) \/ Top(t).pc \in Plain,
         Pops(t) \/ \E r \in Frames : r.pc \in Plain /\ Turns(t, r)
  PROVE  SameRecords
<1>1. Becomes(t, {}, {})
  BY PopsRecords, TurnsRecords
<1> QED
  BY <1>1, PlainRecords

LEMMA FileKinds ==
  ASSUME Typed, NEW t \in Threads,
         \/ InitNotify(t) \/ InitDone(t) \/ PollCheck(t) \/ PollInterrupted(t)
         \/ MapBoolPtr(t) \/ CheckPending(t) \/ SignalNotify(t)
  PROVE  Quiet
<1>1. CASE InitNotify(t)
  <2> PICK c : c = Top(t).ctx
    OBVIOUS
  <2>1. /\ At(t, "clear") /\ c \in Contexts /\ Turns(t, On(c, "copy"))
        /\ contextList' = contextList /\ Only(c) /\ Unmoved(c)
    BY <1>1, InitNotifyIs
  <2>2. On(c, "copy") \in Frames /\ On(c, "copy").pc \in Plain
    BY <2>1, OnIs, OnPlain DEF OnPc
  <2>3. Top(t).pc \in Plain
    BY <2>1, Where DEF Plain
  <2> QED
    BY <2>1, <2>2, <2>3, QuietMoves, OneSettles DEF Quiet
<1>2. CASE InitDone(t)
  <2>1. At(t, "copy") /\ Pops(t) /\ UNCHANGED <<contextList, context>>
    BY <1>2, InitDoneIs
  <2>2. Top(t).pc \in Plain
    BY <2>1, Where DEF Plain
  <2> QED
    BY <2>1, <2>2, QuietMoves, CountSettles DEF Quiet
<1>3. CASE PollCheck(t)
  <2> PICK c : c = Top(t).ctx
    OBVIOUS
  <2>1. /\ At(t, "poll") /\ c \in Contexts /\ UNCHANGED <<contextList, context>>
        /\ Pops(t) \/ Turns(t, On(c, "asleep"))
    BY <1>3, PollCheckIs
  <2>2. On(c, "asleep") \in Frames /\ On(c, "asleep").pc \in Plain
    BY <2>1, OnIs, OnPlain DEF OnPc, FilePc
  <2>3. Top(t).pc \in Plain
    BY <2>1, Where DEF Plain, FilePc
  <2> QED
    BY <2>1, <2>2, <2>3, QuietMoves, CountSettles DEF Quiet
<1>4. CASE PollInterrupted(t)
  <2>1. At(t, "asleep") /\ Pops(t) /\ UNCHANGED <<contextList, context>>
    BY <1>4, PollInterruptedIs
  <2>2. Top(t).pc \in Plain
    BY <2>1, Where DEF Plain, FilePc
  <2> QED
    BY <2>1, <2>2, QuietMoves, CountSettles DEF Quiet
<1>5. CASE MapBoolPtr(t)
  <2> PICK c : c = Top(t).ctx
    OBVIOUS
  <2>1. /\ At(t, "map") /\ c \in Contexts /\ contextList' = contextList
        /\ Only(c) /\ Unmoved(c)
        /\ Pops(t) \/ Turns(t, On(c, "peek"))
    BY <1>5, MapBoolPtrIs
  <2>2. On(c, "peek") \in Frames /\ On(c, "peek").pc \in Plain
    BY <2>1, OnIs, OnPlain DEF OnPc, FilePc
  <2>3. Top(t).pc \in Plain
    BY <2>1, Where DEF Plain, FilePc
  <2> QED
    BY <2>1, <2>2, <2>3, QuietMoves, OneSettles DEF Quiet
<1>6. CASE CheckPending(t)
  <2> PICK c : c = Top(t).ctx
    OBVIOUS
  <2>1. /\ At(t, "peek") /\ c \in Contexts /\ UNCHANGED <<contextList, context>>
        /\ Pops(t) \/ Turns(t, On(c, "signal"))
    BY <1>6, CheckPendingIs
  <2>2. On(c, "signal") \in Frames /\ On(c, "signal").pc \in Plain
    BY <2>1, OnIs, OnPlain DEF OnPc, FilePc
  <2>3. Top(t).pc \in Plain
    BY <2>1, Where DEF Plain, FilePc
  <2> QED
    BY <2>1, <2>2, <2>3, QuietMoves, CountSettles DEF Quiet
<1>7. CASE SignalNotify(t)
  <2> PICK c : c = Top(t).ctx
    OBVIOUS
  <2>1. /\ At(t, "signal") /\ c \in Contexts /\ Pops(t) /\ contextList' = contextList
        /\ Only(c) /\ context'[c] = Signalled(context[c])
    BY <1>7, SignalNotifyIs
  <2>2. Top(t).pc \in Plain
    BY <2>1, Where DEF Plain, FilePc
  <2>3. Unmoved(c)
    BY <2>1, SlotIs DEF Unmoved, Signalled, Slots
  <2> QED
    BY <2>1, <2>2, <2>3, QuietMoves, OneSettles DEF Quiet
<1> QED
  BY <1>1, <1>2, <1>3, <1>4, <1>5, <1>6, <1>7

LEMMA CallKinds ==
  ASSUME Typed, NEW t \in Threads, NEW c \in Contexts, Call(t, c)
  PROVE  Quiet \/ Sends(t) \/ Takes(c) \/ Begins(c) \/ Leaves(t, c)
<1>1. ASSUME NEW i \in Ids, NEW p \in Privileges, InitContext(t, c, i, p) PROVE Begins(c)
  <2>1. /\ Idle(t) /\ Turns(t, On(c, "clear")) /\ Only(c)
        /\ contextList' = Append(contextList, c)
        /\ ~context[c].allocated /\ context'[c].allocated
        /\ context'[c].cid = i /\ context'[c].refCount = 1 /\ context'[c].datagramQueue = <<>>
    BY <1>1, InitContextIs
  <2>2. On(c, "clear") \in Frames /\ On(c, "clear").pc \in Plain
    BY OnIs, OnPlain DEF OnPc
  <2>3. SameRecords
    BY <2>1, <2>2, QuietMoves
  <2>4. /\ ReuseMemory \/ context[c].cid = NoId
        /\ ReuseIds \/ \A d \in Contexts : context[d].cid # i
    BY <1>1 DEF InitContext
  <2> QED
    BY <2>1, <2>3, <2>4 DEF Begins
<1>2. ASSUME NEW i \in Ids, NEW n \in Sizes, Send(t, c, i, n) PROVE Sends(t)
  <2>1. /\ Idle(t) /\ UNCHANGED <<contextList, context>>
    BY <1>2, SendIs
  <2>2. PICK m \in Messages : /\ ~IsEvent(m) /\ Dispatching(i, m) \in Frames
                              /\ Turns(t, Dispatching(i, m))
    BY <1>2, SendIs
  <2>3. PICK q : q = Dispatching(i, m)
    OBVIOUS
  <2>4. /\ q \in Frames /\ q \in Dispatches /\ q.pc \in {"get", "check"}
        /\ q.pc = "get" => context[m.from].cid = i
        /\ q.to = i /\ q.msg = m
    BY <2>3, DispatchingIs DEF AnyId
  <2>5. q.pc \notin Plain
    BY <2>4 DEF Plain, FilePc
  <2>6. Becomes(t, {q}, {})
    BY <2>2, <2>3, <2>4, <2>5, TurnsRecords
  <2> QED
    BY <2>1, <2>2, <2>4, <2>6, CountSettles DEF Sends
<1>3. ASSUME NEW i \in Ids, AddNotification(t, c, i) \/ RemoveNotification(t, c, i)
      PROVE  Quiet
  BY <1>3, NotificationIs, OneSettles, QuietRecords DEF Quiet
<1>4. ASSUME Close(t, c) PROVE Leaves(t, c)
  <2>1. Idle(t) /\ context' = context /\ Unlists(c) /\ Turns(t, On(c, "put"))
    BY <1>4, CloseIs
  <2>2. On(c, "put") \in Frames /\ On(c, "put").pc \notin Plain
    BY OnIs, OnPlain, PlainIs DEF OnPc
  <2> QED
    BY <2>1, <2>2, TurnsRecords, CountSettles DEF Leaves
<1>5. ASSUME Dequeue(t, c) PROVE Takes(c)
  BY <1>5, DequeueIs, QuietRecords DEF Takes, Owns
<1>6. ASSUME Poll(t, c) PROVE Quiet
  <2>1. Idle(t) /\ UNCHANGED <<contextList, context>> /\ Turns(t, On(c, "poll"))
    BY <1>6, PollIs
  <2>2. On(c, "poll") \in Frames /\ On(c, "poll").pc \in Plain
    BY OnIs, OnPlain DEF OnPc, FilePc
  <2> QED
    BY <2>1, <2>2, QuietMoves, CountSettles DEF Quiet
<1>7. ASSUME SetupNotify(t, c) PROVE Quiet
  <2>1. Idle(t) /\ UNCHANGED <<contextList, context>> /\ Turns(t, On(c, "map"))
    BY <1>7, SetupNotifyIs
  <2>2. On(c, "map") \in Frames /\ On(c, "map").pc \in Plain
    BY OnIs, OnPlain DEF OnPc, FilePc
  <2> QED
    BY <2>1, <2>2, QuietMoves, CountSettles DEF Quiet
<1> QED
  BY <1>1, <1>2, <1>3, <1>4, <1>5, <1>6, <1>7 DEF Call

LEMMA AtDispatch ==
  ASSUME Typed, NEW t \in Threads, NEW pc \in DispatchPc, At(t, pc)
  PROVE  DispatchAt(t, {pc}) /\ Top(t).pc = pc /\ Top(t) \in Dispatches
  BY Where DEF DispatchAt

LEMMA DispatchMoves ==
  ASSUME Typed, NEW t \in Threads, Top(t) \in Dispatches,
         NEW q, NEW pc \in DispatchPc, MovesOn(t, q, pc), Turns(t, q)
  PROVE  Becomes(t, {q}, {})
<1>1. q \in Frames /\ q.pc \notin Plain
  BY PlainIs DEF MovesOn
<1> QED
  BY <1>1, TurnsRecords

LEMMA AwayKinds ==
  ASSUME Typed, NEW t \in Threads, TurnsAway(t),
         DispatchAt(t, {"check", "check_missed", "get", "get_missed"}),
         UNCHANGED <<contextList, context>>
  PROVE  GivesUp(t)
<1>1. CASE Pops(t)
  BY <1>1, PopsRecords, CountSettles DEF GivesUp
<1>2. CASE ~DenyInteraction(Top(t).msg.priv, "restricted") /\ Turns(t, Asks(t))
  <2>1. PICK q : q = Asks(t)
    OBVIOUS
  <2>2. MovesOn(t, q, "get")
    BY <2>1, AsksIs DEF MovesOn, DispatchAt
  <2>3. Becomes(t, {q}, {})
    BY <1>2, <2>1, <2>2, DispatchMoves DEF DispatchAt, DispatchPc
  <2> QED
    BY <1>2, <2>2, <2>3, CountSettles DEF GivesUp
<1> QED
  BY <1>1, <1>2 DEF TurnsAway

LEMMA SearchKinds ==
  ASSUME Typed, NEW t \in Threads, Check(t) \/ Get(t)
  PROVE  GivesUp(t) \/ \E c \in Contexts : Gets(t, c) \/ Looks(t, c)
<1>1. ASSUME NEW pc \in DispatchPc, NEW c \in Contexts, Top(t) \in Dispatches,
             pc \in Missing \cup Targeting
      PROVE  LET q == [Top(t) EXCEPT !.pc = pc, !.ctx = c] IN MovesOn(t, q, pc) /\ q.ctx = c
  BY <1>1 DEF MovesOn, Frames, Dispatches
<1>2. ASSUME NEW pc \in {"checked", "enqueue"}, Finds(t, pc), contextList' = contextList,
             DispatchAt(t, {IF pc = "checked" THEN "check" ELSE "get"})
      PROVE  \E c \in Contexts : Gets(t, c)
  <2>1. PICK c \in Range(contextList) :
          /\ c \in Contexts /\ context[c].cid = Top(t).to
          /\ Recounted(c, context[c].refCount + 1)
          /\ Turns(t, [Top(t) EXCEPT !.pc = pc, !.ctx = c])
    BY <1>2 DEF Finds
  <2>2. PICK q : q = [Top(t) EXCEPT !.pc = pc, !.ctx = c]
    OBVIOUS
  <2>3. pc \in DispatchPc /\ pc \in Missing \cup Targeting /\ Top(t) \in Dispatches
    BY <1>2 DEF DispatchPc, Targeting, DispatchAt
  <2>4. MovesOn(t, q, pc) /\ q.ctx = c
    BY <1>1, <2>1, <2>2, <2>3
  <2>5. Becomes(t, {q}, {})
    BY <2>1, <2>2, <2>3, <2>4, DispatchMoves
  <2> QED
    BY <1>2, <2>1, <2>4, <2>5 DEF Gets
<1>3. ASSUME NEW pc \in {"check_missed", "get_missed"}, Misses(t, pc), contextList' = contextList,
             DispatchAt(t, {IF pc = "check_missed" THEN "check" ELSE "get"})
      PROVE  \E c \in Contexts : Looks(t, c)
  <2>1. PICK c \in Range(contextList) :
          c \in Contexts /\ Turns(t, [Top(t) EXCEPT !.pc = pc, !.ctx = c])
    BY <1>3 DEF Misses
  <2>2. PICK q : q = [Top(t) EXCEPT !.pc = pc, !.ctx = c]
    OBVIOUS
  <2>3. pc \in DispatchPc /\ pc \in Missing \cup Targeting /\ Top(t) \in Dispatches
    BY <1>3 DEF DispatchPc, Missing, DispatchAt
  <2>4. MovesOn(t, q, pc) /\ q.ctx = c
    BY <1>1, <2>1, <2>2, <2>3
  <2>5. Becomes(t, {q}, {})
    BY <2>1, <2>2, <2>3, <2>4, DispatchMoves
  <2>6. Settled
    BY <1>3, CountSettles DEF Misses
  <2> QED
    BY <1>3, <2>1, <2>4, <2>5, <2>6 DEF Looks, Misses
<1>4. CASE Check(t)
  <2>1. /\ At(t, "check") /\ contextList' = contextList
        /\ \/ Finds(t, "checked")
           \/ Misses(t, "check_missed")
           \/ context' = context /\ TurnsAway(t)
    BY <1>4, CheckIs
  <2>2. DispatchAt(t, {"check"})
    BY <2>1, AtDispatch DEF DispatchPc
  <2>3. DispatchAt(t, {"check", "check_missed", "get", "get_missed"})
    BY <2>2 DEF DispatchAt
  <2>4. ASSUME Finds(t, "checked") PROVE \E c \in Contexts : Gets(t, c)
    BY <1>2, <2>1, <2>2, <2>4
  <2>5. ASSUME Misses(t, "check_missed") PROVE \E c \in Contexts : Looks(t, c)
    BY <1>3, <2>1, <2>2, <2>5
  <2> QED
    BY <2>1, <2>3, <2>4, <2>5, AwayKinds
<1>5. CASE Get(t)
  <2>1. /\ At(t, "get") /\ contextList' = contextList
        /\ \/ Finds(t, "enqueue")
           \/ Misses(t, "get_missed")
           \/ context' = context /\ TurnsAway(t)
    BY <1>5, GetIs
  <2>2. DispatchAt(t, {"get"})
    BY <2>1, AtDispatch DEF DispatchPc
  <2>3. DispatchAt(t, {"check", "check_missed", "get", "get_missed"})
    BY <2>2 DEF DispatchAt
  <2>4. ASSUME Finds(t, "enqueue") PROVE \E c \in Contexts : Gets(t, c)
    BY <1>2, <2>1, <2>2, <2>4
  <2>5. ASSUME Misses(t, "get_missed") PROVE \E c \in Contexts : Looks(t, c)
    BY <1>3, <2>1, <2>2, <2>5
  <2> QED
    BY <2>1, <2>3, <2>4, <2>5, AwayKinds
<1> QED
  BY <1>4, <1>5

LEMMA MissedKinds ==
  ASSUME Typed, NEW t \in Threads, CheckMissed(t) \/ GetMissed(t)
  PROVE  GivesUp(t) \/ Mistakes(t)
<1>1. /\ At(t, "check_missed") \/ At(t, "get_missed")
      /\ Top(t).ctx \in Contexts /\ UNCHANGED <<contextList, context>>
      /\ context[Top(t).ctx].cid = Top(t).to \/ TurnsAway(t)
  BY CheckMissedIs, GetMissedIs
<1>2. DispatchAt(t, Missing)
  <2>1. "check_missed" \in DispatchPc /\ "get_missed" \in DispatchPc
    BY DEF DispatchPc
  <2> QED
    BY <1>1, <2>1, AtDispatch DEF DispatchAt, Missing
<1>3. DispatchAt(t, {"check", "check_missed", "get", "get_missed"})
  BY <1>2 DEF DispatchAt, Missing
<1>4. context[Top(t).ctx].cid = Top(t).to => "unreferenced" \in oops'
  BY DEF CheckMissed, GetMissed, Compare
<1> QED
  BY <1>1, <1>2, <1>3, <1>4, AwayKinds DEF Mistakes

LEMMA DropKinds ==
  ASSUME Typed, NEW t \in Threads, Put(t) \/ ReleaseTarget(t) \/ Checked(t)
  PROVE  \E c \in Contexts : Drops(t, c)
<1> PICK c : c = Top(t).ctx
  OBVIOUS
<1>1. c \in Contexts =>
        Freeing(c) \in Frames /\ Freeing(c).pc \notin Plain
  BY FreeingIs DEF Plain, FilePc
<1>2. CASE Put(t) \/ ReleaseTarget(t)
  <2>1. /\ At(t, "put") \/ At(t, "release")
        /\ c \in Contexts /\ contextList' = contextList
        /\ Recounted(c, context[c].refCount - 1)
        /\ \/ context[c].refCount = 1 /\ Turns(t, Freeing(c))
           \/ context[c].refCount # 1 /\ Pops(t)
    BY <1>2, PutIs, ReleaseTargetIs
  <2>2. ~Idle(t) /\ Top(t).pc \in {"put", "release", "checked"}
    BY <2>1, Where
  <2>3. \/ context[c].refCount = 1 /\ Becomes(t, {Freeing(c)}, {})
        \/ context[c].refCount # 1 /\ Becomes(t, {}, {})
    BY <1>1, <2>1, TurnsRecords, PopsRecords
  <2> QED
    BY <2>1, <2>2, <2>3 DEF Drops
<1>3. CASE Checked(t)
  <2>1. /\ At(t, "checked") /\ c \in Contexts /\ Top(t) \in Dispatches
        /\ contextList' = contextList /\ Recounted(c, context[c].refCount - 1)
        /\ \/ context[c].refCount = 1 /\ Turns(t, Freeing(c))
           \/ context[c].refCount # 1 /\ Pops(t)
           \/ /\ ~DenyInteraction(Top(t).msg.priv, context[c].priv)
              /\ \/ context[c].refCount = 1 /\ Pushes(t, Asks(t), Freeing(c))
                 \/ context[c].refCount # 1 /\ Turns(t, Asks(t))
    BY <1>3, CheckedIs
  <2>2. ~Idle(t) /\ Top(t).pc = "checked" /\ DispatchAt(t, {"checked"})
    BY <2>1, Where, AtDispatch DEF DispatchPc
  <2>3. PICK q : q = Asks(t)
    OBVIOUS
  <2>4. MovesOn(t, q, "get") /\ q \in Frames /\ q.pc \notin Plain
    BY <2>1, <2>3, AsksIs DEF MovesOn, Plain, FilePc
  <2>5. \/ context[c].refCount = 1 /\ Becomes(t, {Freeing(c)}, {})
        \/ context[c].refCount # 1 /\ Becomes(t, {}, {})
        \/ /\ ~DenyInteraction(Top(t).msg.priv, context[c].priv)
           /\ \/ context[c].refCount = 1 /\ Becomes(t, {q}, {Freeing(c)})
              \/ context[c].refCount # 1 /\ Becomes(t, {q}, {})
    BY <1>1, <2>1, <2>3, <2>4, TurnsRecords, PopsRecords, PushesRecords
  <2> QED
    BY <2>1, <2>2, <2>4, <2>5 DEF Drops
<1> QED
  BY <1>2, <1>3

LEMMA OtherKinds ==
  ASSUME Typed, NEW t \in Threads,
         InitFaults(t) \/ Enqueue(t) \/ Refuse(t) \/ Scan(t) \/ Fire(t) \/ FreeContext(t)
  PROVE  Refuses(t) \/ \E c \in Contexts : \/ Leaves(t, c) \/ Delivers(t, c) \/ Scans(t, c)
                                           \/ Fires(t, c) \/ GivesBack(t, c)
<1> PICK c : c = Top(t).ctx
  OBVIOUS
<1>1. CASE InitFaults(t)
  <2>1. /\ At(t, "copy") /\ c \in Contexts /\ context' = context
        /\ Unlists(c) /\ Turns(t, On(c, "put"))
    BY <1>1, InitFaultsIs
  <2>2. On(c, "put") \in Frames /\ On(c, "put").pc \notin Plain
    BY <2>1, OnIs, OnPlain, PlainIs DEF OnPc
  <2>3. Top(t).pc \in Plain
    BY <2>1, Where DEF Plain
  <2> QED
    BY <2>1, <2>2, <2>3, TurnsRecords, CountSettles DEF Leaves
<1>2. PICK q : q = [Top(t) EXCEPT !.pc = "release"]
  OBVIOUS
<1>3. "release" \in DispatchPc /\ "enqueue" \in DispatchPc
  BY DEF DispatchPc
<1>4. ASSUME At(t, "enqueue")
      PROVE  DispatchAt(t, {"enqueue"}) /\ c \in Contexts /\ MovesOn(t, q, "release") /\ q.ctx = c
  <2>1. Top(t) \in Dispatches /\ c \in Contexts /\ DispatchAt(t, {"enqueue"})
    BY <1>3, <1>4, Where, AtDispatch DEF Targeting
  <2> QED
    BY <1>2, <1>3, <2>1 DEF MovesOn, Dispatches, Frames
<1>5. CASE Refuse(t)
  <2>1. At(t, "enqueue") /\ UNCHANGED <<contextList, context>> /\ Turns(t, q)
    BY <1>2, <1>5, RefuseIs
  <2>2. Becomes(t, {q}, {})
    BY <1>3, <1>4, <2>1, DispatchMoves DEF DispatchAt
  <2> QED
    BY <1>4, <2>1, <2>2, CountSettles DEF Refuses
<1>6. CASE Enqueue(t)
  <2>1. /\ At(t, "enqueue") /\ c \in Contexts
        /\ contextList' = contextList /\ Only(c)
        /\ context'[c].cid = context[c].cid /\ context'[c].priv = context[c].priv
        /\ context'[c].allocated = context[c].allocated
        /\ context'[c].refCount = context[c].refCount
        /\ context'[c].datagramQueue = Append(context[c].datagramQueue, Top(t).msg)
        /\ q \in Frames /\ Wakes(t, c, q)
    BY <1>2, <1>6, EnqueueIs
  <2>2. MovesOn(t, q, "release") /\ q.ctx = c /\ q.pc \notin Plain
    BY <1>4, <2>1 DEF MovesOn, Plain, FilePc
  <2>3. Becomes(t, {q}, {})
    BY <2>1, <2>2, WakesRecords
  <2> QED
    BY <1>4, <2>1, <2>2, <2>3 DEF Delivers, Owns
<1>7. CASE Scan(t)
  <2>1. /\ At(t, "scan") /\ Top(t) \in Frees /\ c \in Contexts
        /\ UNCHANGED <<contextList, context>>
    BY <1>7, ScanIs
  <2>2. PICK r \in Frames : /\ r \in Frees /\ r.pc = "fire" /\ r.ctx = c
                            /\ r.todo = {context[d].cid : d \in Subscribers(c)}
                            /\ Turns(t, r)
    BY <1>7, ScanIs
  <2>3. r.pc \notin Plain
    BY <2>2 DEF Plain, FilePc
  <2>4. Becomes(t, {r}, {})
    BY <2>2, <2>3, TurnsRecords
  <2>5. FreesAt(t, "scan", c)
    BY <2>1, Where DEF FreesAt
  <2> QED
    BY <2>1, <2>2, <2>4, <2>5, CountSettles DEF Scans
<1>8. CASE Fire(t)
  <2>1. /\ At(t, "fire") /\ Top(t) \in Frees /\ c \in Contexts
        /\ UNCHANGED <<contextList, context>>
        /\ EventOf(c) \in Messages /\ IsEvent(EventOf(c))
    BY <1>8, FireIs
  <2>2. PICK i \in Top(t).todo :
          /\ i \in AnyId /\ Dispatching(i, EventOf(c)) \in Frames
          /\ Pushes(t, [Top(t) EXCEPT !.todo = @ \ {i}], Dispatching(i, EventOf(c)))
    BY <1>8, FireIs
  <2>3. PICK r : r = [Top(t) EXCEPT !.todo = @ \ {i}]
    OBVIOUS
  <2>4. PICK e : e = Dispatching(i, EventOf(c))
    OBVIOUS
  <2>5. Top(t).pc = "fire" /\ FreesAt(t, "fire", c)
    BY <2>1, Where DEF FreesAt
  <2>6. /\ r \in Frees /\ r.pc = "fire" /\ r.ctx = c /\ r.todo = Top(t).todo \ {i}
    BY <2>1, <2>3, <2>5 DEF Frees
  <2>7. r \in Frames /\ r.pc \notin Plain
    BY <2>6 DEF Frames, Missing, Targeting, Plain, FilePc
  <2>8. /\ e \in Frames /\ e \in Dispatches /\ e.pc = "check" /\ e.to = i /\ e.msg = EventOf(c)
    BY <2>1, <2>2, <2>4, DispatchingIs
  <2>9. e.pc \notin Plain
    BY <2>8 DEF Plain, FilePc
  <2>10. Becomes(t, {r}, {e})
    BY <2>2, <2>3, <2>4, <2>7, <2>8, <2>9, PushesRecords
  <2> QED
    BY <2>1, <2>2, <2>5, <2>6, <2>7, <2>8, <2>10, CountSettles DEF Fires
<1>9. CASE FreeContext(t)
  <2>1. /\ At(t, "fire") /\ Top(t) \in Frees /\ c \in Contexts
        /\ contextList' = contextList /\ Pops(t) /\ Only(c)
        /\ context'[c].cid = context[c].cid /\ context'[c].priv = context[c].priv
        /\ ~context'[c].allocated
        /\ context'[c].refCount = 0 /\ context'[c].datagramQueue = <<>>
    BY <1>9, FreeContextIs
  <2>2. FreesAt(t, "fire", c)
    BY <2>1, Where DEF FreesAt
  <2> QED
    BY <2>1, <2>2, PopsRecords DEF GivesBack, Owns
<1> QED
  BY <1>1, <1>5, <1>6, <1>7, <1>8, <1>9

LEMMA StepKind ==
  ASSUME Typed, Next
  PROVE  \E t \in Threads : Kind(t)
<1>1. ASSUME NEW t \in Threads, NEW c \in Contexts, Call(t, c) PROVE Kind(t)
  BY <1>1, CallKinds DEF Kind
<1>2. ASSUME NEW t \in Threads, Continue(t) \/ PollInterrupted(t) PROVE Kind(t)
  BY <1>2, FileKinds, SearchKinds, MissedKinds, DropKinds, OtherKinds DEF Kind, Continue
<1> QED
  BY <1>1, <1>2 DEF Next

-----------------------------------------------------------------------------
(* The references: who counts for a context, and who frees it *)

HoldPc == {"checked", "enqueue", "release", "put"}
Claims(r, c, S) == r.pc \in S /\ r.ctx = c
Claimants(c, S) == {k \in Records : Claims(RecordAt(k), c, S)}
Marks == {HoldPc, FreePc}

LEMMA ClaimantsAre ==
  /\ \A c : Holders(c) = Claimants(c, HoldPc)
  /\ \A c : Freers(c) = Claimants(c, FreePc)
  /\ \A S \in Marks : S \cap Plain = {}
  /\ HoldPc \in Marks /\ FreePc \in Marks /\ HoldPc \cap FreePc = {}
  BY DEF Holders, Freers, Claimants, Claims, HoldPc, FreePc, Marks, Plain, FilePc

ClaimMap ==
  \A c : \A S \in Marks : \A k : k \in Claimants(c, S) <=>
    \E t \in Threads : \E n, r : k = <<t, n>> /\ Has(t, n, r) /\ Claims(r, c, S)

LEMMA ClaimsMapped == Typed => ClaimMap
<1> SUFFICES ASSUME Typed, NEW c, NEW S \in Marks
             PROVE  \A k : k \in Claimants(c, S) <=>
                      \E t \in Threads : \E n, r :
                        k = <<t, n>> /\ Has(t, n, r) /\ Claims(r, c, S)
  BY DEF ClaimMap
<1>1. ASSUME NEW k, k \in Claimants(c, S)
      PROVE  \E t \in Threads : \E n, r : k = <<t, n>> /\ Has(t, n, r) /\ Claims(r, c, S)
  <2>1. PICK t \in Threads : k \in {t} \X DOMAIN stack[t]
    BY <1>1 DEF Claimants, Records
  <2>2. PICK n \in DOMAIN stack[t] : k = <<t, n>>
    BY <2>1
  <2>3. stack[t] \in Seq(Frames)
    BY Tops
  <2>4. n \in 1..Len(stack[t])
    BY <2>2, <2>3
  <2>5. Claims(stack[t][n], c, S)
    BY <1>1, <2>2 DEF Claimants, RecordAt
  <2>6. Has(t, n, stack[t][n])
    BY <2>4, <2>5, ClaimantsAre DEF Has, Claims
  <2> QED
    BY <2>2, <2>5, <2>6
<1>2. ASSUME NEW k, NEW t \in Threads, NEW n, NEW r, k = <<t, n>>, Has(t, n, r),
             Claims(r, c, S)
      PROVE  k \in Claimants(c, S)
  <2>1. stack[t] \in Seq(Frames)
    BY Tops
  <2>2. n \in DOMAIN stack[t] /\ stack[t][n] = r
    BY <1>2, <2>1 DEF Has
  <2>3. k \in {t} \X DOMAIN stack[t]
    BY <1>2, <2>2
  <2>4. k \in Records
    BY <2>3 DEF Records
  <2>5. RecordAt(k) = r
    BY <1>2, <2>2 DEF RecordAt
  <2> QED
    BY <1>2, <2>4, <2>5 DEF Claimants
<1> QED
  BY <1>1, <1>2

TopClaims(t, c, S) == ~Idle(t) /\ Claims(Top(t), c, S)
Above(t) == <<t, Kept(t) + 2>>

LEMMA PlaceClaims ==
  ASSUME Typed, NEW t \in Threads, NEW c, NEW S \in Marks
  PROVE  /\ Place(t) \in Claimants(c, S) <=> TopClaims(t, c, S)
         /\ Above(t) \notin Claimants(c, S) /\ Above(t) # Place(t)
<1>1. ClaimMap
  BY ClaimsMapped
<1>2. Place(t) \in Claimants(c, S) <=> \E r : Has(t, Kept(t) + 1, r) /\ Claims(r, c, S)
  BY <1>1 DEF Place, ClaimMap
<1>3. Claims(Top(t), c, S) => Top(t).pc \notin Plain
  BY ClaimantsAre DEF Claims
<1>4. Kept(t) + 2 \notin 1..(Kept(t) + 1) /\ Kept(t) + 2 # Kept(t) + 1
  BY Tops
<1>5. \A r : ~Has(t, Kept(t) + 2, r)
  BY <1>4, HasTop
<1>6. Above(t) \notin Claimants(c, S)
  BY <1>1, <1>5 DEF Above, ClaimMap
<1> QED
  BY <1>2, <1>3, <1>4, <1>6, HasTop DEF TopClaims, Place, Above

LEMMA ClaimsStep ==
  ASSUME Typed, Typed', NEW t \in Threads, NEW a, NEW b, Becomes(t, a, b), NEW c,
         NEW S \in Marks
  PROVE  \A k : k \in Claimants(c, S)' <=>
           \/ k \in Claimants(c, S) /\ k # Place(t)
           \/ k = Place(t) /\ \E r \in a : Claims(r, c, S)
           \/ k = Above(t) /\ \E r \in b : Claims(r, c, S)
<1>1. ClaimMap'
  <2>1. Typed'
    OBVIOUS
  <2> QED
    BY <2>1, ClaimsMapped, PTL
<1>2. \A k : k \in Claimants(c, S)' <=>
        \E u \in Threads : \E n, r : k = <<u, n>> /\ Has(u, n, r)' /\ Claims(r, c, S)
  BY <1>1, ZenonT(60) DEF ClaimMap, Claims, Marks, HoldPc, FreePc
<1>3. \A k : k \in Claimants(c, S) <=>
        \E u \in Threads : \E n, r : k = <<u, n>> /\ Has(u, n, r) /\ Claims(r, c, S)
  BY ClaimsMapped DEF ClaimMap
<1> QED
  BY <1>2, <1>3 DEF Becomes, Place, Above

\* What a step does to the claimants of one context.
LEMMA ClaimsSame ==
  ASSUME Typed, Typed', SameRecords, NEW c, NEW S \in Marks
  PROVE  Claimants(c, S)' = Claimants(c, S)
<1>1. ClaimMap'
  <2>1. Typed'
    OBVIOUS
  <2> QED
    BY <2>1, ClaimsMapped, PTL
<1>2. \A k : k \in Claimants(c, S)' <=>
        \E u \in Threads : \E n, r : k = <<u, n>> /\ Has(u, n, r)' /\ Claims(r, c, S)
  BY <1>1, ZenonT(60) DEF ClaimMap, Claims, Marks, HoldPc, FreePc
<1>3. \A k : k \in Claimants(c, S) <=>
        \E u \in Threads : \E n, r : k = <<u, n>> /\ Has(u, n, r) /\ Claims(r, c, S)
  BY ClaimsMapped DEF ClaimMap
<1>4. \A k : k \in Claimants(c, S)' <=> k \in Claimants(c, S)
  BY <1>2, <1>3 DEF SameRecords
<1> QED
  BY <1>4

Stays(t, a, b, c, S) ==
  (\A r \in b : ~Claims(r, c, S)) /\ (TopClaims(t, c, S) <=> \E r \in a : Claims(r, c, S))

LEMMA ClaimsStay ==
  ASSUME Typed, Typed', NEW t \in Threads, NEW a, NEW b, Becomes(t, a, b), NEW c,
         NEW S \in Marks, Stays(t, a, b, c, S)
  PROVE  Claimants(c, S)' = Claimants(c, S)
<1>1. \A k : k \in Claimants(c, S)' <=> k \in Claimants(c, S)
  BY ClaimsStep, PlaceClaims DEF Stays
<1> QED
  BY <1>1

Gains(t, a, b, c, S) ==
  \/ ~TopClaims(t, c, S) /\ (\E r \in a : Claims(r, c, S)) /\ \A r \in b : ~Claims(r, c, S)
  \/ ~TopClaims(t, c, S) /\ (\A r \in a : ~Claims(r, c, S)) /\ \E r \in b : Claims(r, c, S)

LEMMA ClaimsGain ==
  ASSUME Typed, Typed', NEW t \in Threads, NEW a, NEW b, Becomes(t, a, b), NEW c,
         NEW S \in Marks, Gains(t, a, b, c, S), IsFiniteSet(Claimants(c, S))
  PROVE  /\ IsFiniteSet(Claimants(c, S)')
         /\ Cardinality(Claimants(c, S)') = Cardinality(Claimants(c, S)) + 1
<1>1. PICK p \in {Place(t), Above(t)} :
        \A k : k \in Claimants(c, S)' <=> k \in Claimants(c, S) \/ k = p
  BY ClaimsStep, PlaceClaims DEF Gains
<1>2. p \notin Claimants(c, S)
  BY PlaceClaims DEF Gains
<1>3. Claimants(c, S)' = Claimants(c, S) \cup {p}
  BY <1>1
<1> QED
  BY <1>2, <1>3, FS_AddElement

Loses(t, a, b, c, S) ==
  TopClaims(t, c, S) /\ \A r \in a \cup b : ~Claims(r, c, S)

LEMMA ClaimsLose ==
  ASSUME Typed, Typed', NEW t \in Threads, NEW a, NEW b, Becomes(t, a, b), NEW c,
         NEW S \in Marks, Loses(t, a, b, c, S), IsFiniteSet(Claimants(c, S))
  PROVE  /\ IsFiniteSet(Claimants(c, S)')
         /\ Cardinality(Claimants(c, S)') = Cardinality(Claimants(c, S)) - 1
<1>1. \A k : k \in Claimants(c, S)' <=> k \in Claimants(c, S) /\ k # Place(t)
  BY ClaimsStep DEF Loses
<1>2. Claimants(c, S)' = Claimants(c, S) \ {Place(t)} /\ Place(t) \in Claimants(c, S)
  BY <1>1, PlaceClaims DEF Loses
<1> QED
  BY <1>2, FS_RemoveElement

Distinct ==
  \A n, m \in 1..Len(contextList) : contextList[n] = contextList[m] => n = m
Listed(c) == c \in Range(contextList)

\* The list: the same, one more, one less.
LEMMA ListSame ==
  ASSUME contextList' = contextList
  PROVE  (Distinct => Distinct') /\ \A c \in Contexts : Listed(c)' <=> Listed(c)
  BY DEF Distinct, Listed

LEMMA ListedAt ==
  ASSUME Typed, NEW c
  PROVE  Listed(c) <=> \E n \in 1..Len(contextList) : contextList[n] = c
  BY DEF Typed, Listed, Range

ListMap == \A c : Listed(c) <=> \E n \in 1..Len(contextList) : contextList[n] = c
LEMMA ListMapped == Typed => ListMap
  BY ListedAt DEF ListMap

LEMMA ListGains ==
  ASSUME Typed, Typed', Distinct, NEW c \in Contexts, contextList' = Append(contextList, c),
         ~Listed(c)
  PROVE  Distinct' /\ \A d \in Contexts : Listed(d)' <=> Listed(d) \/ d = c
<1>1. contextList \in Seq(Contexts) /\ Len(contextList) \in Nat
  BY DEF Typed
<1> PICK k \in Nat : k = Len(contextList)
  BY <1>1
<1>2. /\ Len(contextList') = k + 1 /\ contextList'[k + 1] = c
      /\ \A n \in 1..k : contextList'[n] = contextList[n]
  BY <1>1
<1>3. \A n \in 1..(k + 1) : n \in 1..k \/ n = k + 1
  OBVIOUS
<1>4. \A n \in 1..k : contextList[n] # c
  BY ListedAt
<1>5. Distinct'
  BY <1>2, <1>3, <1>4 DEF Distinct
<1>6. Typed'
  OBVIOUS
<1>7. ListMap'
  BY <1>6, ListMapped, PTL
<1>8. \A n \in 1..k : n \in 1..(k + 1)
  OBVIOUS
<1>9. k + 1 \in 1..(k + 1)
  OBVIOUS
<1>10. ASSUME NEW d \in Contexts PROVE Listed(d)' <=> Listed(d) \/ d = c
  BY <1>2, <1>3, <1>7, <1>8, <1>9, ListedAt DEF ListMap
<1> QED
  BY <1>5, <1>10

LEMMA ListLoses ==
  ASSUME Typed, Typed', Distinct, NEW c \in Contexts, Unlists(c)
  PROVE  Listed(c) /\ Distinct' /\ \A d \in Contexts : Listed(d)' <=> Listed(d) /\ d # c
<1>1. contextList \in Seq(Contexts) /\ Len(contextList) \in Nat
  BY DEF Typed
<1> PICK k \in Nat : k = Len(contextList)
  BY <1>1
<1>2. PICK m \in 1..k : contextList[m] = c /\ contextList' = RemoveAt(contextList, m)
  BY DEF Unlists
<1>3. /\ Len(contextList') = k - 1
      /\ \A n \in 1..(k - 1) :
           contextList'[n] = IF n < m THEN contextList[n] ELSE contextList[n + 1]
  BY <1>1, <1>2, Removal
<1>4. Typed'
  OBVIOUS
<1>5. ListMap'
  BY <1>4, ListMapped, PTL
<1> DEFINE From(n) == IF n < m THEN n ELSE n + 1
<1>6. /\ \A n \in 1..(k - 1) : From(n) \in 1..k /\ From(n) # m
      /\ \A n, l \in 1..(k - 1) : From(n) = From(l) => n = l
      /\ \A n \in 1..k : n # m => \E l \in 1..(k - 1) : From(l) = n
  <2>1. \A n \in 1..(k - 1) : From(n) \in 1..k /\ From(n) # m
    OBVIOUS
  <2>2. \A n, l \in 1..(k - 1) : From(n) = From(l) => n = l
    OBVIOUS
  <2>3. ASSUME NEW n \in 1..k, n # m PROVE \E l \in 1..(k - 1) : From(l) = n
    <3>1. CASE n < m
      <4>1. n \in 1..(k - 1) /\ From(n) = n
        BY <3>1
      <4> QED
        BY <4>1
    <3>2. CASE ~(n < m)
      <4>1. n - 1 \in 1..(k - 1) /\ From(n - 1) = n
        BY <2>3, <3>2
      <4> QED
        BY <4>1
    <3> QED
      BY <3>1, <3>2
  <2> QED
    BY <2>1, <2>2, <2>3
<1>7. \A n \in 1..(k - 1) : contextList'[n] = contextList[From(n)]
  BY <1>3
<1> HIDE DEF From
<1>8. Listed(c)
  BY <1>2, ListedAt
<1>9. Distinct'
  <2>1. ASSUME NEW n \in 1..(k - 1), NEW l \in 1..(k - 1), contextList'[n] = contextList'[l]
        PROVE  n = l
    <3>1. contextList[From(n)] = contextList[From(l)]
      BY <1>7, <2>1
    <3>2. From(n) \in 1..k /\ From(l) \in 1..k
      BY <1>6
    <3>3. From(n) = From(l)
      BY <3>1, <3>2 DEF Distinct
    <3> QED
      BY <1>6, <3>3
  <2> QED
    BY <1>3, <2>1 DEF Distinct
<1>10. ASSUME NEW d \in Contexts PROVE Listed(d)' <=> Listed(d) /\ d # c
  <2>1. Listed(d)' <=> \E n \in 1..(k - 1) : contextList[From(n)] = d
    BY <1>3, <1>5, <1>7 DEF ListMap
  <2>2. Listed(d) <=> \E n \in 1..k : contextList[n] = d
    BY ListedAt
  <2>3. ASSUME Listed(d)' PROVE Listed(d) /\ d # c
    <3>1. PICK n \in 1..(k - 1) : contextList[From(n)] = d
      BY <2>1, <2>3
    <3>2. From(n) \in 1..k /\ From(n) # m
      BY <1>6
    <3> QED
      BY <1>2, <2>2, <3>1, <3>2 DEF Distinct
  <2>4. ASSUME Listed(d), d # c PROVE Listed(d)'
    <3>1. PICK n \in 1..k : contextList[n] = d
      BY <2>2, <2>4
    <3>2. n # m
      BY <1>2, <2>4, <3>1
    <3>3. PICK l \in 1..(k - 1) : From(l) = n
      BY <1>6, <3>2
    <3> QED
      BY <2>1, <3>1, <3>3
  <2> QED
    BY <2>3, <2>4
<1> QED
  BY <1>8, <1>9, <1>10

\* The count of a context and the one that frees it.
CountFits(c) ==
  /\ IsFiniteSet(Claimants(c, HoldPc)) /\ IsFiniteSet(Claimants(c, FreePc))
  /\ context[c].refCount = Cardinality(Claimants(c, HoldPc)) + (IF Listed(c) THEN 1 ELSE 0)
  /\ Cardinality(Claimants(c, FreePc)) =
       (IF context[c].allocated /\ context[c].refCount = 0 THEN 1 ELSE 0)
Counted == \A c \in Contexts : CountFits(c)

\* Memory that is no context has nothing to count and nothing to read.
Vacant ==
  \A c \in Contexts :
    ~context[c].allocated => context[c].refCount = 0 /\ context[c].datagramQueue = <<>>

References == Typed /\ Distinct /\ Counted /\ Vacant

Held(c) == context[c].allocated /\ context[c].refCount # 0
Dying(c) == context[c].allocated /\ context[c].refCount = 0

LEMMA Numbers ==
  ASSUME References, NEW c \in Contexts
  PROVE  /\ Cardinality(Claimants(c, HoldPc)) \in Nat
         /\ Cardinality(Claimants(c, FreePc)) \in Nat
         /\ context[c].refCount \in Nat
         /\ Listed(c) => Held(c)
         /\ \A k \in Claimants(c, HoldPc) : Held(c)
         /\ \A k \in Claimants(c, FreePc) : Dying(c)
<1>1. /\ IsFiniteSet(Claimants(c, HoldPc)) /\ IsFiniteSet(Claimants(c, FreePc))
      /\ context[c].refCount = Cardinality(Claimants(c, HoldPc)) + (IF Listed(c) THEN 1 ELSE 0)
      /\ Cardinality(Claimants(c, FreePc)) =
           (IF context[c].allocated /\ context[c].refCount = 0 THEN 1 ELSE 0)
  BY DEF References, Counted, CountFits
<1>2. Cardinality(Claimants(c, HoldPc)) \in Nat /\ Cardinality(Claimants(c, FreePc)) \in Nat
  BY <1>1, FS_CardinalityType
<1>3. \A k \in Claimants(c, HoldPc) : Cardinality(Claimants(c, HoldPc)) # 0
  BY <1>1, FS_EmptySet
<1>4. \A k \in Claimants(c, FreePc) : Cardinality(Claimants(c, FreePc)) # 0
  BY <1>1, FS_EmptySet
<1>5. context[c].refCount # 0 => Held(c)
  BY DEF References, Vacant, Held
<1>6. Listed(c) => context[c].refCount # 0
  BY <1>1, <1>2
<1>7. \A k \in Claimants(c, HoldPc) : context[c].refCount # 0
  BY <1>1, <1>2, <1>3
<1>8. \A k \in Claimants(c, FreePc) : Dying(c)
  BY <1>1, <1>4 DEF Dying
<1> QED
  BY <1>1, <1>2, <1>5, <1>6, <1>7, <1>8

\* The top of a thread's stack has what it claims.
LEMMA TopNumbers ==
  ASSUME References, NEW t \in Threads, NEW c \in Contexts
  PROVE  /\ TopClaims(t, c, HoldPc) => Held(c)
         /\ TopClaims(t, c, FreePc) => Dying(c)
<1>1. Typed
  BY DEF References
<1> QED
  BY <1>1, PlaceClaims, Numbers, ClaimantsAre

\* A context that a step leaves alone.
Alone(c) ==
  /\ context'[c].allocated = context[c].allocated
  /\ context'[c].refCount = context[c].refCount
  /\ ~context[c].allocated => context'[c].datagramQueue = <<>>

LEMMA AloneFits ==
  ASSUME References, NEW c \in Contexts, Alone(c), Listed(c)' <=> Listed(c),
         Claimants(c, HoldPc)' = Claimants(c, HoldPc),
         Claimants(c, FreePc)' = Claimants(c, FreePc)
  PROVE  CountFits(c)'
<1>1. CountFits(c)
  BY DEF References, Counted
<1> QED
  BY <1>1 DEF CountFits, Alone

\* A step that leaves the list and all counts as they are.
Even == contextList' = contextList /\ \A c \in Contexts : Alone(c)

LEMMA SettledEven ==
  ASSUME References, Settled, contextList' = contextList
  PROVE  Even
  BY DEF References, Settled, Unmoved, Even, Alone, Vacant

LEMMA OwnedEven ==
  ASSUME References, NEW c \in Contexts, Owns(c), contextList' = contextList, Alone(c)
  PROVE  Even
  BY DEF References, Owns, Only, Even, Alone, Vacant

LEMMA VacantStep ==
  ASSUME References, NEW c \in Contexts, Only(c),
         ~context'[c].allocated => context'[c].refCount = 0 /\ context'[c].datagramQueue = <<>>
  PROVE  Vacant'
  BY DEF References, Vacant, Only

LEMMA EvenReferences ==
  ASSUME References, Typed', Even,
         \A c \in Contexts : /\ Claimants(c, HoldPc)' = Claimants(c, HoldPc)
                             /\ Claimants(c, FreePc)' = Claimants(c, FreePc)
  PROVE  References'
<1>1. Distinct' /\ \A c \in Contexts : Listed(c)' <=> Listed(c)
  BY ListSame DEF References, Even
<1>2. ASSUME NEW c \in Contexts PROVE CountFits(c)'
  BY <1>1, AloneFits DEF Even
<1>3. Vacant'
  BY DEF References, Even, Alone, Vacant
<1> QED
  BY <1>1, <1>2, <1>3 DEF References, Counted

LEMMA QuietReferences ==
  ASSUME References, Typed', Even, SameRecords
  PROVE  References'
<1>1. Typed
  BY DEF References
<1>2. \A c \in Contexts : /\ Claimants(c, HoldPc)' = Claimants(c, HoldPc)
                          /\ Claimants(c, FreePc)' = Claimants(c, FreePc)
  BY <1>1, ClaimsSame, ClaimantsAre
<1> QED
  BY <1>2, EvenReferences

LEMMA EvenBecomes ==
  ASSUME References, Typed', Even, NEW t \in Threads, NEW a, NEW b, Becomes(t, a, b),
         \A c \in Contexts : Stays(t, a, b, c, HoldPc) /\ Stays(t, a, b, c, FreePc)
  PROVE  References'
<1>1. Typed
  BY DEF References
<1>2. ASSUME NEW c \in Contexts
      PROVE  /\ Claimants(c, HoldPc)' = Claimants(c, HoldPc)
             /\ Claimants(c, FreePc)' = Claimants(c, FreePc)
  <2>1. Stays(t, a, b, c, HoldPc) /\ Stays(t, a, b, c, FreePc)
    OBVIOUS
  <2> QED
    BY <1>1, <2>1, ClaimsStay, ClaimantsAre
<1> QED
  BY <1>2, EvenReferences

\* A record that neither holds nor frees.
Free(r) == r.pc \notin HoldPc \cup FreePc

LEMMA FreeClaims ==
  ASSUME NEW r, Free(r)
  PROVE  \A c : ~Claims(r, c, HoldPc) /\ ~Claims(r, c, FreePc)
  BY DEF Free, Claims

LEMMA FreeStays ==
  ASSUME NEW t \in Threads, NEW a, NEW b, \A r \in a \cup b : Free(r),
         ~Idle(t) => Free(Top(t))
  PROVE  \A c : Stays(t, a, b, c, HoldPc) /\ Stays(t, a, b, c, FreePc)
  BY FreeClaims DEF Stays, TopClaims

\* A record that takes the place of one with the same claim.
LEMMA SameStays ==
  ASSUME NEW t \in Threads, NEW q, NEW b, \A r \in b : Free(r), ~Idle(t),
         q.ctx = Top(t).ctx,
         \/ q.pc \in HoldPc /\ Top(t).pc \in HoldPc
         \/ q.pc \in FreePc /\ Top(t).pc \in FreePc
  PROVE  \A c : Stays(t, {q}, b, c, HoldPc) /\ Stays(t, {q}, b, c, FreePc)
<1>1. HoldPc \cap FreePc = {}
  BY ClaimantsAre
<1> QED
  BY <1>1, FreeClaims DEF Stays, TopClaims, Claims

\* The steps that neither take nor drop a reference.
LEMMA TakesReferences ==
  ASSUME References, Typed', NEW c \in Contexts, Takes(c)
  PROVE  Even /\ References'
<1>1. ~context[c].allocated => context[c].datagramQueue = <<>>
  BY DEF References, Vacant
<1>2. Even
  BY <1>1, OwnedEven DEF Takes, Alone
<1> QED
  BY <1>2, QuietReferences DEF Takes

LEMMA SendsReferences ==
  ASSUME References, Typed', NEW t \in Threads, Sends(t)
  PROVE  Even /\ References'
<1>1. Even
  BY SettledEven DEF Sends
<1>2. PICK q \in Frames : q.pc \in {"get", "check"} /\ Becomes(t, {q}, {})
  BY DEF Sends
<1>3. Free(q)
  BY <1>2 DEF Free, HoldPc, FreePc
<1> QED
  BY <1>1, <1>2, <1>3, FreeStays, EvenBecomes DEF Sends

LEMMA GivesUpReferences ==
  ASSUME References, Typed', NEW t \in Threads, GivesUp(t)
  PROVE  Even /\ References'
<1>1. Even
  BY SettledEven DEF GivesUp
<1>2. Free(Top(t))
  BY DEF GivesUp, DispatchAt, Free, HoldPc, FreePc
<1>3. CASE Becomes(t, {}, {})
  <2>1. \A c \in Contexts : Stays(t, {}, {}, c, HoldPc) /\ Stays(t, {}, {}, c, FreePc)
    BY <1>2, FreeStays
  <2> QED
    BY <1>1, <1>3, <2>1, EvenBecomes
<1>4. ASSUME NEW q, MovesOn(t, q, "get"), Becomes(t, {q}, {}) PROVE References'
  <2>1. Free(q)
    BY <1>4 DEF MovesOn, Free, HoldPc, FreePc
  <2>2. \A c \in Contexts : Stays(t, {q}, {}, c, HoldPc) /\ Stays(t, {q}, {}, c, FreePc)
    BY <1>2, <2>1, FreeStays
  <2> QED
    BY <1>1, <1>4, <2>2, EvenBecomes
<1> QED
  BY <1>1, <1>3, <1>4 DEF GivesUp

LEMMA LooksReferences ==
  ASSUME References, Typed', NEW t \in Threads, NEW c \in Contexts, Looks(t, c)
  PROVE  Even /\ References'
<1>1. Even
  BY SettledEven DEF Looks
<1>2. PICK q : Becomes(t, {q}, {}) /\ q.pc \in Missing /\ Top(t).pc \in {"check", "get"}
  BY DEF Looks, MovesOn, DispatchAt, Missing
<1>3. Free(q) /\ Free(Top(t))
  BY <1>2 DEF Free, Missing, HoldPc, FreePc
<1>4. \A d \in Contexts : Stays(t, {q}, {}, d, HoldPc) /\ Stays(t, {q}, {}, d, FreePc)
  BY <1>3, FreeStays
<1> QED
  BY <1>1, <1>2, <1>4, EvenBecomes

LEMMA RefusesReferences ==
  ASSUME References, Typed', NEW t \in Threads, Even, DispatchAt(t, {"enqueue"}),
         NEW q, MovesOn(t, q, "release"), q.ctx = Top(t).ctx, Becomes(t, {q}, {})
  PROVE  References'
<1>1. q.pc \in HoldPc /\ Top(t).pc \in HoldPc /\ ~Idle(t)
  BY DEF HoldPc, MovesOn, DispatchAt
<1>2. \A d \in Contexts : Stays(t, {q}, {}, d, HoldPc) /\ Stays(t, {q}, {}, d, FreePc)
  BY <1>1, SameStays
<1> QED
  BY <1>2, EvenBecomes

LEMMA DeliversReferences ==
  ASSUME References, Typed', NEW t \in Threads, NEW c \in Contexts, Delivers(t, c)
  PROVE  Even /\ References' /\ Held(c)
<1>1. TopClaims(t, c, HoldPc)
  BY DEF Delivers, DispatchAt, TopClaims, Claims, HoldPc
<1>2. Held(c)
  BY <1>1, TopNumbers
<1>3. Even
  BY <1>2, OwnedEven DEF Delivers, Alone, Held
<1> QED
  BY <1>2, <1>3, RefusesReferences DEF Delivers

LEMMA FreesClaims ==
  ASSUME References, NEW t \in Threads, NEW pc \in FreePc, NEW c \in Contexts, FreesAt(t, pc, c)
  PROVE  TopClaims(t, c, FreePc) /\ Dying(c)
  BY TopNumbers DEF FreesAt, TopClaims, Claims

LEMMA ScansReferences ==
  ASSUME References, Typed', NEW t \in Threads, NEW c \in Contexts, Scans(t, c)
  PROVE  Even /\ References' /\ Dying(c)
<1>1. Even
  BY SettledEven DEF Scans
<1>2. PICK q : q.pc = "fire" /\ q.ctx = c /\ Becomes(t, {q}, {})
  BY DEF Scans
<1>3. q.pc \in FreePc /\ Top(t).pc \in FreePc /\ q.ctx = Top(t).ctx /\ ~Idle(t)
  BY <1>2 DEF Scans, FreesAt, FreePc
<1>4. \A d \in Contexts : Stays(t, {q}, {}, d, HoldPc) /\ Stays(t, {q}, {}, d, FreePc)
  BY <1>3, SameStays
<1> QED
  BY <1>1, <1>2, <1>4, EvenBecomes, FreesClaims DEF Scans, FreePc

LEMMA FiresReferences ==
  ASSUME References, Typed', NEW t \in Threads, NEW c \in Contexts, Fires(t, c)
  PROVE  Even /\ References' /\ Dying(c)
<1>1. Even
  BY SettledEven DEF Fires
<1>2. PICK q, e : q.pc = "fire" /\ q.ctx = c /\ e.pc = "check" /\ Becomes(t, {q}, {e})
  BY DEF Fires
<1>3. q.pc \in FreePc /\ Top(t).pc \in FreePc /\ q.ctx = Top(t).ctx /\ ~Idle(t)
  BY <1>2 DEF Fires, FreesAt, FreePc
<1>4. Free(e)
  BY <1>2 DEF Free, HoldPc, FreePc
<1>5. \A d \in Contexts : Stays(t, {q}, {e}, d, HoldPc) /\ Stays(t, {q}, {e}, d, FreePc)
  BY <1>3, <1>4, SameStays
<1> QED
  BY <1>1, <1>2, <1>5, EvenBecomes, FreesClaims DEF Fires, FreePc

\* The steps of which one context's count comes out different.
LEMMA OneReferences ==
  ASSUME References, Typed', NEW t \in Threads, NEW c \in Contexts, Only(c),
         NEW a, NEW b, Becomes(t, a, b),
         \A d \in Contexts : d # c =>
           /\ Listed(d)' <=> Listed(d)
           /\ Stays(t, a, b, d, HoldPc) /\ Stays(t, a, b, d, FreePc),
         Distinct', CountFits(c)',
         ~context'[c].allocated => context'[c].refCount = 0 /\ context'[c].datagramQueue = <<>>
  PROVE  References'
<1>1. Typed
  BY DEF References
<1>2. ASSUME NEW d \in Contexts, d # c PROVE CountFits(d)'
  <2>1. Stays(t, a, b, d, HoldPc) /\ Stays(t, a, b, d, FreePc)
    BY <1>2
  <2>2. /\ Claimants(d, HoldPc)' = Claimants(d, HoldPc)
        /\ Claimants(d, FreePc)' = Claimants(d, FreePc)
    BY <1>1, <2>1, ClaimsStay, ClaimantsAre
  <2>3. Alone(d)
    BY <1>2 DEF References, Only, Alone, Vacant
  <2> QED
    BY <1>2, <2>2, <2>3, AloneFits
<1>3. Counted'
  BY <1>2 DEF Counted
<1> QED
  BY <1>3, VacantStep DEF References

LEMMA BeginsReferences ==
  ASSUME References, Typed', NEW c \in Contexts, Begins(c)
  PROVE  References'
<1>1. /\ Only(c) /\ contextList' = Append(contextList, c) /\ SameRecords
      /\ ~context[c].allocated /\ context'[c].allocated
      /\ context'[c].refCount = 1
  BY DEF Begins
<1>2. Typed /\ Distinct
  BY DEF References
<1>3. ~Held(c) /\ ~Dying(c)
  BY <1>1 DEF Held, Dying
<1>4. ~Listed(c) /\ Claimants(c, HoldPc) = {} /\ Claimants(c, FreePc) = {}
  BY <1>3, Numbers
<1>5. Distinct' /\ \A d \in Contexts : Listed(d)' <=> Listed(d) \/ d = c
  BY <1>1, <1>2, <1>4, ListGains
<1>6. \A d \in Contexts : /\ Claimants(d, HoldPc)' = Claimants(d, HoldPc)
                          /\ Claimants(d, FreePc)' = Claimants(d, FreePc)
  BY <1>1, <1>2, ClaimsSame, ClaimantsAre
<1>7. CountFits(c)'
  <2>1. IsFiniteSet({}) /\ Cardinality({}) = 0
    BY FS_EmptySet
  <2>2. Claimants(c, HoldPc)' = {} /\ Claimants(c, FreePc)' = {} /\ Listed(c)'
    BY <1>4, <1>5, <1>6
  <2> QED
    BY <1>1, <2>1, <2>2 DEF CountFits
<1>8. ASSUME NEW d \in Contexts, d # c PROVE CountFits(d)'
  <2>1. Alone(d)
    BY <1>1, <1>8 DEF References, Only, Alone, Vacant
  <2>2. Listed(d)' <=> Listed(d)
    BY <1>5, <1>8
  <2> QED
    BY <1>6, <2>1, <2>2, AloneFits
<1>9. Counted'
  BY <1>7, <1>8 DEF Counted
<1>10. Vacant'
  BY <1>1, VacantStep
<1> QED
  BY <1>5, <1>9, <1>10 DEF References

\* LIST_DEL hands the reference of the list to the thread.
LEMMA LeavesReferences ==
  ASSUME References, Typed', NEW t \in Threads, NEW c \in Contexts, Leaves(t, c)
  PROVE  References'
<1>1. Typed /\ Distinct
  BY DEF References
<1> PICK r : r = On(c, "put")
  OBVIOUS
<1>2. Settled /\ Unlists(c) /\ Becomes(t, {r}, {})
  BY DEF Leaves
<1>3. Listed(c) /\ Distinct' /\ \A d \in Contexts : Listed(d)' <=> Listed(d) /\ d # c
  BY <1>1, <1>2, ListLoses
<1>4. ~Idle(t) => Free(Top(t))
  BY DEF Leaves, Free, Plain, FilePc, HoldPc, FreePc
<1>5. r.pc = "put" /\ r.ctx = c
  BY DEF On
<1>6. \A d : /\ ~TopClaims(t, d, HoldPc) /\ ~TopClaims(t, d, FreePc)
             /\ Claims(r, d, HoldPc) <=> d = c
             /\ ~Claims(r, d, FreePc)
  BY <1>4, <1>5, FreeClaims DEF TopClaims, Claims, HoldPc, FreePc
<1>7. \A d \in Contexts : Stays(t, {r}, {}, d, FreePc) /\ (d # c => Stays(t, {r}, {}, d, HoldPc))
  BY <1>6 DEF Stays
<1>8. Gains(t, {r}, {}, c, HoldPc)
  BY <1>6 DEF Gains
<1>9. CountFits(c)
  BY DEF References, Counted
<1>10. /\ IsFiniteSet(Claimants(c, HoldPc)')
       /\ Cardinality(Claimants(c, HoldPc)') = Cardinality(Claimants(c, HoldPc)) + 1
  BY <1>1, <1>2, <1>8, <1>9, ClaimsGain, ClaimantsAre DEF CountFits
<1>11. Claimants(c, FreePc)' = Claimants(c, FreePc)
  <2>1. Stays(t, {r}, {}, c, FreePc) /\ Becomes(t, {r}, {}) /\ FreePc \in Marks
    BY <1>2, <1>7, ClaimantsAre
  <2> QED
    BY <1>1, <2>1, ClaimsStay
<1>12. /\ context'[c].refCount = context[c].refCount
       /\ context'[c].allocated = context[c].allocated
  BY <1>2 DEF Settled, Unmoved
<1>13. CountFits(c)'
  <2>1. ~Listed(c)' /\ Cardinality(Claimants(c, HoldPc)) \in Nat
    BY <1>3, Numbers
  <2> QED
    BY <1>3, <1>9, <1>10, <1>11, <1>12, <2>1 DEF CountFits
<1>14. ASSUME NEW d \in Contexts, d # c PROVE CountFits(d)'
  <2>1. Alone(d)
    BY <1>2 DEF References, Settled, Unmoved, Alone, Vacant
  <2>2. Listed(d)' <=> Listed(d)
    BY <1>3, <1>14
  <2>3. Stays(t, {r}, {}, d, HoldPc) /\ Stays(t, {r}, {}, d, FreePc)
    BY <1>7, <1>14
  <2>4. /\ Claimants(d, HoldPc)' = Claimants(d, HoldPc)
        /\ Claimants(d, FreePc)' = Claimants(d, FreePc)
    BY <1>1, <1>2, <2>3, ClaimsStay, ClaimantsAre
  <2> QED
    BY <2>1, <2>2, <2>4, AloneFits
<1>15. Counted'
  BY <1>13, <1>14 DEF Counted
<1>16. Vacant'
  BY <1>2 DEF References, Settled, Unmoved, Vacant
<1> QED
  BY <1>3, <1>15, <1>16 DEF References

LEMMA GetsReferences ==
  ASSUME References, Typed', NEW t \in Threads, NEW c \in Contexts, Gets(t, c)
  PROVE  References' /\ Held(c)
<1>1. Typed /\ Distinct /\ CountFits(c)
  BY DEF References, Counted
<1>2. Listed(c) /\ contextList' = contextList /\ Recounted(c, context[c].refCount + 1)
  BY DEF Gets, Listed
<1>3. /\ Held(c) /\ context[c].refCount \in Nat
      /\ Cardinality(Claimants(c, HoldPc)) \in Nat
  BY <1>2, Numbers
<1>4. PICK q : /\ q.ctx = c /\ Becomes(t, {q}, {}) /\ q.pc \in {"checked", "enqueue"}
               /\ Top(t).pc \in {"check", "get"}
  BY DEF Gets, MovesOn, DispatchAt
<1>5. Free(Top(t))
  BY <1>4 DEF Free, HoldPc, FreePc
<1>6. \A d : /\ ~TopClaims(t, d, HoldPc) /\ ~TopClaims(t, d, FreePc)
             /\ Claims(q, d, HoldPc) <=> d = c
             /\ ~Claims(q, d, FreePc)
  BY <1>4, <1>5, FreeClaims DEF TopClaims, Claims, HoldPc, FreePc
<1>7. \A d \in Contexts : Stays(t, {q}, {}, d, FreePc) /\ (d # c => Stays(t, {q}, {}, d, HoldPc))
  BY <1>6 DEF Stays
<1>8. Gains(t, {q}, {}, c, HoldPc)
  BY <1>6 DEF Gains
<1>9. Distinct' /\ \A d \in Contexts : Listed(d)' <=> Listed(d)
  BY <1>1, <1>2, ListSame
<1>10. /\ IsFiniteSet(Claimants(c, HoldPc)')
       /\ Cardinality(Claimants(c, HoldPc)') = Cardinality(Claimants(c, HoldPc)) + 1
  BY <1>1, <1>4, <1>8, ClaimsGain, ClaimantsAre DEF CountFits
<1>11. Claimants(c, FreePc)' = Claimants(c, FreePc)
  <2>1. Stays(t, {q}, {}, c, FreePc) /\ Becomes(t, {q}, {}) /\ FreePc \in Marks
    BY <1>4, <1>7, ClaimantsAre
  <2> QED
    BY <1>1, <2>1, ClaimsStay
<1>12. /\ context'[c].refCount = context[c].refCount + 1 /\ Only(c)
       /\ context'[c].allocated /\ context[c].allocated /\ context[c].refCount # 0
  BY <1>2, <1>3 DEF Recounted, Held
<1>13. CountFits(c)'
  BY <1>1, <1>2, <1>3, <1>9, <1>10, <1>11, <1>12 DEF CountFits
<1>14. \A d \in Contexts : d # c =>
           /\ Listed(d)' <=> Listed(d)
           /\ Stays(t, {q}, {}, d, HoldPc) /\ Stays(t, {q}, {}, d, FreePc)
  BY <1>7, <1>9
<1> QED
  BY <1>3, <1>4, <1>9, <1>12, <1>13, <1>14, OneReferences

\* ... counted down: where the count reaches nought the context is freed.
Asked(t, c, r) ==
  /\ DispatchAt(t, {"checked"}) /\ MovesOn(t, r, "get") /\ r.pc = "get"
  /\ ~DenyInteraction(Top(t).msg.priv, context[c].priv)
DropsTo(t, c, a, b) ==
  /\ Becomes(t, a, b)
  /\ \/ context[c].refCount # 1 /\ \A r \in a \cup b : Asked(t, c, r)
     \/ /\ context[c].refCount = 1
        /\ \/ a = {Freeing(c)} /\ b = {}
           \/ (\A r \in a : Asked(t, c, r)) /\ b = {Freeing(c)}

LEMMA DropsAre ==
  ASSUME NEW t \in Threads, NEW c \in Contexts, Drops(t, c)
  PROVE  \E a, b : DropsTo(t, c, a, b)
<1> DEFINE Asks1(q) == /\ DispatchAt(t, {"checked"}) /\ MovesOn(t, q, "get")
                       /\ ~DenyInteraction(Top(t).msg.priv, context[c].priv)
<1>1. ASSUME NEW q, Asks1(q) PROVE Asked(t, c, q)
  BY <1>1 DEF MovesOn, Asked
<1>2. CASE context[c].refCount = 1 /\ Becomes(t, {Freeing(c)}, {})
  BY <1>2 DEF DropsTo
<1>3. CASE context[c].refCount # 1 /\ Becomes(t, {}, {})
  BY <1>3 DEF DropsTo
<1>4. ASSUME NEW q, Asks1(q), context[c].refCount = 1, Becomes(t, {q}, {Freeing(c)})
      PROVE  DropsTo(t, c, {q}, {Freeing(c)})
  BY <1>1, <1>4 DEF DropsTo
<1>5. ASSUME NEW q, Asks1(q), context[c].refCount # 1, Becomes(t, {q}, {})
      PROVE  DropsTo(t, c, {q}, {})
  BY <1>1, <1>5 DEF DropsTo
<1> QED
  BY <1>2, <1>3, <1>4, <1>5 DEF Drops

LEMMA DropsOn ==
  ASSUME NEW t \in Threads, NEW c \in Contexts, Drops(t, c), context[c].refCount # 1
  PROVE  \E a : Becomes(t, a, {}) /\ \A r \in a : Asked(t, c, r)
<1>1. CASE Becomes(t, {}, {})
  BY <1>1
<1>2. ASSUME NEW q, DispatchAt(t, {"checked"}), MovesOn(t, q, "get"),
             ~DenyInteraction(Top(t).msg.priv, context[c].priv), Becomes(t, {q}, {})
      PROVE  \E a : Becomes(t, a, {}) /\ \A r \in a : Asked(t, c, r)
  <2>1. Asked(t, c, q)
    BY <1>2 DEF Asked, MovesOn
  <2> QED
    BY <1>2, <2>1
<1> QED
  BY <1>1, <1>2 DEF Drops

LEMMA DropsReferences ==
  ASSUME References, Typed', NEW t \in Threads, NEW c \in Contexts, Drops(t, c)
  PROVE  References' /\ Held(c) /\ (context[c].refCount = 1 => ~Listed(c))
<1>1. Typed /\ Distinct /\ CountFits(c)
  BY DEF References, Counted
<1>2. /\ ~Idle(t) /\ Top(t).pc \in {"put", "release", "checked"} /\ Top(t).ctx = c
      /\ contextList' = contextList /\ Recounted(c, context[c].refCount - 1)
  BY DEF Drops
<1>3. \A d : (TopClaims(t, d, HoldPc) <=> d = c) /\ ~TopClaims(t, d, FreePc)
  BY <1>2 DEF TopClaims, Claims, HoldPc, FreePc
<1>4. /\ Held(c) /\ context[c].refCount \in Nat
      /\ Cardinality(Claimants(c, HoldPc)) \in Nat
      /\ Cardinality(Claimants(c, FreePc)) \in Nat
  BY <1>3, TopNumbers, Numbers
<1>5. PICK a, b : DropsTo(t, c, a, b)
  BY DropsAre
<1>6. Freeing(c).pc = "scan" /\ Freeing(c).ctx = c
  BY DEF Freeing
<1>7. \A d : /\ ~Claims(Freeing(c), d, HoldPc)
             /\ Claims(Freeing(c), d, FreePc) <=> d = c
             /\ \A r : r.pc = "get" => ~Claims(r, d, HoldPc) /\ ~Claims(r, d, FreePc)
  BY <1>6 DEF Claims, HoldPc, FreePc
<1>8. Loses(t, a, b, c, HoldPc)
  BY <1>3, <1>5, <1>7 DEF Loses, DropsTo, Asked
<1>9. \A d \in Contexts : d # c => Stays(t, a, b, d, HoldPc) /\ Stays(t, a, b, d, FreePc)
  <2>1. \A r \in a \cup b : r.pc = "get" \/ r = Freeing(c)
    BY <1>5 DEF DropsTo, Asked
  <2>2. \A d : d # c => \A r \in a \cup b : ~Claims(r, d, HoldPc) /\ ~Claims(r, d, FreePc)
    BY <1>7, <2>1
  <2> QED
    BY <1>3, <2>2 DEF Stays
<1>10. /\ context[c].refCount # 1 => Stays(t, a, b, c, FreePc)
       /\ context[c].refCount = 1 => Gains(t, a, b, c, FreePc)
  BY <1>3, <1>5, <1>7 DEF Stays, Gains, DropsTo, Asked
<1>11. Distinct' /\ \A d \in Contexts : Listed(d)' <=> Listed(d)
  BY <1>1, <1>2, ListSame
<1>12. /\ IsFiniteSet(Claimants(c, HoldPc)')
       /\ Cardinality(Claimants(c, HoldPc)') = Cardinality(Claimants(c, HoldPc)) - 1
  BY <1>1, <1>5, <1>8, ClaimsLose, ClaimantsAre DEF CountFits, DropsTo
<1>13. /\ context'[c].refCount = context[c].refCount - 1 /\ Only(c)
       /\ context'[c].allocated /\ context[c].allocated /\ context[c].refCount # 0
  BY <1>2, <1>4 DEF Recounted, Held
<1>14. Cardinality(Claimants(c, FreePc)) = 0
  BY <1>1, <1>13 DEF CountFits
<1>15. /\ IsFiniteSet(Claimants(c, FreePc)')
       /\ Cardinality(Claimants(c, FreePc)') = IF context[c].refCount = 1 THEN 1 ELSE 0
  <2>1. CASE context[c].refCount = 1
    <3>1. Gains(t, a, b, c, FreePc)
      BY <1>10, <2>1
    <3>2. /\ IsFiniteSet(Claimants(c, FreePc)')
          /\ Cardinality(Claimants(c, FreePc)') = Cardinality(Claimants(c, FreePc)) + 1
      BY <1>1, <1>5, <3>1, ClaimsGain, ClaimantsAre DEF CountFits, DropsTo
    <3> QED
      BY <1>14, <2>1, <3>2
  <2>2. CASE context[c].refCount # 1
    <3>1. Stays(t, a, b, c, FreePc)
      BY <1>10, <2>2
    <3>2. Claimants(c, FreePc)' = Claimants(c, FreePc)
      BY <1>1, <1>5, <3>1, ClaimsStay, ClaimantsAre DEF DropsTo
    <3> QED
      BY <1>1, <1>14, <2>2, <3>2 DEF CountFits
  <2> QED
    BY <2>1, <2>2
<1>16. context[c].refCount = Cardinality(Claimants(c, HoldPc)) + (IF Listed(c) THEN 1 ELSE 0)
  BY <1>1 DEF CountFits
<1>17. CountFits(c)'
  <2>1. context'[c].refCount = 0 <=> context[c].refCount = 1
    BY <1>4, <1>13
  <2>2. context'[c].refCount = Cardinality(Claimants(c, HoldPc)') + (IF Listed(c)' THEN 1 ELSE 0)
    <3>1. (IF Listed(c)' THEN 1 ELSE 0) = (IF Listed(c) THEN 1 ELSE 0)
      BY <1>11
    <3> QED
      BY <1>4, <1>12, <1>13, <1>16, <3>1
  <2> QED
    BY <1>12, <1>13, <1>15, <2>1, <2>2 DEF CountFits
<1>18. References'
  BY <1>5, <1>9, <1>11, <1>13, <1>17, OneReferences DEF DropsTo
<1>19. context[c].refCount = 1 => ~Listed(c)
  <2>1. Place(t) \in Claimants(c, HoldPc)
    BY <1>1, <1>3, PlaceClaims, ClaimantsAre
  <2>2. Cardinality(Claimants(c, HoldPc)) # 0
    BY <1>1, <2>1, FS_EmptySet DEF CountFits
  <2> QED
    BY <1>4, <1>16, <2>2
<1> QED
  BY <1>4, <1>18, <1>19

\* The one that frees gives the memory back, and nobody claims it then.
LEMMA GivesBackReferences ==
  ASSUME References, Typed', NEW t \in Threads, NEW c \in Contexts, GivesBack(t, c)
  PROVE  References' /\ Dying(c)
<1>1. Typed /\ Distinct /\ CountFits(c)
  BY DEF References, Counted
<1>2. /\ ~Idle(t) /\ Top(t).pc = "fire" /\ Top(t).ctx = c /\ contextList' = contextList
      /\ Only(c) /\ Becomes(t, {}, {}) /\ ~context'[c].allocated
      /\ context'[c].refCount = 0 /\ context'[c].datagramQueue = <<>>
  BY DEF GivesBack, FreesAt, Owns
<1>3. \A d : ~TopClaims(t, d, HoldPc) /\ (TopClaims(t, d, FreePc) <=> d = c)
  BY <1>2 DEF TopClaims, Claims, HoldPc, FreePc
<1>4. Dying(c)
  BY <1>3, TopNumbers
<1>5. Distinct' /\ \A d \in Contexts : Listed(d)' <=> Listed(d)
  BY <1>1, <1>2, ListSame
<1>6. Stays(t, {}, {}, c, HoldPc) /\ Loses(t, {}, {}, c, FreePc)
  BY <1>3 DEF Stays, Loses
<1>7. /\ IsFiniteSet(Claimants(c, FreePc)')
      /\ Cardinality(Claimants(c, FreePc)') = Cardinality(Claimants(c, FreePc)) - 1
  BY <1>1, <1>2, <1>6, ClaimsLose, ClaimantsAre DEF CountFits
<1>8. Claimants(c, HoldPc)' = Claimants(c, HoldPc)
  BY <1>1, <1>2, <1>6, ClaimsStay, ClaimantsAre
<1>9. CountFits(c)'
  BY <1>1, <1>2, <1>4, <1>5, <1>7, <1>8 DEF CountFits, Dying
<1>10. \A d \in Contexts : d # c =>
           /\ Listed(d)' <=> Listed(d)
           /\ Stays(t, {}, {}, d, HoldPc) /\ Stays(t, {}, {}, d, FreePc)
  BY <1>3, <1>5 DEF Stays
<1> QED
  BY <1>2, <1>4, <1>5, <1>9, <1>10, OneReferences

LEMMA ReferencesKind ==
  ASSUME References, Typed', NEW t \in Threads, Kind(t), ~Mistakes(t)
  PROVE  References'
<1>1. CASE Quiet
  BY <1>1, SettledEven, QuietReferences DEF Quiet
<1>2. CASE Sends(t) \/ GivesUp(t)
  BY <1>2, SendsReferences, GivesUpReferences
<1>3. CASE Refuses(t)
  BY <1>3, SettledEven, RefusesReferences DEF Refuses
<1>4. ASSUME NEW c \in Contexts, Takes(c) \/ Looks(t, c) \/ Delivers(t, c) \/ Scans(t, c)
      PROVE  References'
  BY <1>4, TakesReferences, LooksReferences, DeliversReferences, ScansReferences
<1>5. ASSUME NEW c \in Contexts, Fires(t, c) \/ GivesBack(t, c) \/ Begins(c)
      PROVE  References'
  BY <1>5, FiresReferences, GivesBackReferences, BeginsReferences
<1>6. ASSUME NEW c \in Contexts, Leaves(t, c) \/ Drops(t, c) \/ Gets(t, c)
      PROVE  References'
  BY <1>6, LeavesReferences, DropsReferences, GetsReferences
<1> QED
  BY <1>1, <1>2, <1>3, <1>4, <1>5, <1>6 DEF Kind

LEMMA ReferencesInit ==
  ASSUME Init
  PROVE  References
<1>1. Typed /\ contextList = <<>>
  BY PromptInit DEF Prompt, Init
<1>2. \A t \in Threads : stack[t] = <<>> /\ Len(stack[t]) = 0
  BY DEF Init
<1>3. \A c \in Contexts :
        ~context[c].allocated /\ context[c].refCount = 0 /\ context[c].datagramQueue = <<>>
  BY DEF Init, Fresh
<1>4. Distinct
  BY <1>1 DEF Distinct
<1>5. \A c : ~Listed(c)
  BY <1>1 DEF Listed, Range
<1>6. \A c : \A S \in Marks : Claimants(c, S) = {}
  <2>1. \A t \in Threads : \A n, r : ~Has(t, n, r)
    BY <1>2 DEF Has
  <2>2. \A c : \A S \in Marks : \A k : k \notin Claimants(c, S)
    BY <1>1, <2>1, ClaimsMapped DEF ClaimMap
  <2> QED
    BY <2>2
<1>7. IsFiniteSet({}) /\ Cardinality({}) = 0
  BY FS_EmptySet
<1>8. ASSUME NEW c \in Contexts PROVE CountFits(c)
  <2>1. /\ Claimants(c, HoldPc) = {} /\ Claimants(c, FreePc) = {} /\ ~Listed(c)
        /\ ~context[c].allocated /\ context[c].refCount = 0
    BY <1>3, <1>5, <1>6, ClaimantsAre
  <2> QED
    BY <1>7, <2>1 DEF CountFits
<1> QED
  BY <1>1, <1>3, <1>4, <1>8 DEF References, Counted, Vacant

LEMMA ReferencesShow ==
  ASSUME References
  PROVE  RefCountIsHolders /\ FreedOnceByOne
<1>1. \A c \in Contexts : CountFits(c)
  BY DEF References, Counted
<1>2. RefCountIsHolders
  BY <1>1, ClaimantsAre DEF RefCountIsHolders, CountFits, Listed
<1>3. \A c \in Range(contextList) : c \in Contexts
  BY DEF References, Typed, Range
<1>4. \A c \in Range(contextList) : context[c].allocated
  BY <1>3, Numbers DEF Listed, Held
<1> QED
  BY <1>1, <1>2, <1>4, ClaimantsAre DEF FreedOnceByOne, CountFits

\* VMCIContext_Get has not handed out a context that it took no reference to.
Sound == "unreferenced" \notin oops

LEMMA OopsStay ==
  ASSUME Next
  PROVE  oops \subseteq oops'
<1>1. ASSUME NEW t \in Threads, NEW c \in Contexts, Call(t, c) PROVE oops \subseteq oops'
  BY <1>1 DEF Call, InitContext, Send, AddNotification, RemoveNotification, Close, Dequeue,
     Poll, SetupNotify
<1>2. ASSUME NEW t \in Threads, Continue(t) \/ PollInterrupted(t) PROVE oops \subseteq oops'
  <2>1. CASE \/ InitNotify(t) \/ InitDone(t) \/ InitFaults(t) \/ Put(t)
             \/ PollCheck(t) \/ MapBoolPtr(t) \/ CheckPending(t) \/ SignalNotify(t)
             \/ PollInterrupted(t)
    BY <2>1 DEF InitNotify, InitDone, InitFaults, Put, PollCheck, MapBoolPtr, CheckPending,
       SignalNotify, PollInterrupted
  <2>2. CASE \/ Check(t) \/ Checked(t) \/ Get(t) \/ Refuse(t) \/ ReleaseTarget(t)
             \/ Scan(t) \/ Fire(t) \/ FreeContext(t)
    BY <2>2 DEF Check, Checked, Get, Refuse, ReleaseTarget, Scan, Fire, FreeContext
  <2>3. CASE CheckMissed(t) \/ GetMissed(t) \/ Enqueue(t)
    BY <2>3 DEF CheckMissed, GetMissed, Compare, Enqueue
  <2> QED
    BY <1>2, <2>1, <2>2, <2>3 DEF Continue
<1> QED
  BY <1>1, <1>2 DEF Next

ReferencesUnless == Prompt /\ (Sound => References)

LEMMA ReferencesUnlessNext ==
  ASSUME ReferencesUnless, [Next]_vars
  PROVE  ReferencesUnless'
<1>1. Prompt /\ Prompt'
  BY PromptNext DEF ReferencesUnless
<1>2. ASSUME Sound', Next PROVE References'
  <2>1. Sound
    BY <1>2, OopsStay DEF Sound
  <2>2. References
    BY <2>1 DEF ReferencesUnless
  <2>3. Typed /\ Typed'
    BY <1>1 DEF Prompt
  <2>4. PICK t \in Threads : Kind(t)
    BY <1>2, <2>3, StepKind
  <2>5. ~Mistakes(t)
    BY <1>2 DEF Mistakes, Sound
  <2> QED
    BY <2>2, <2>3, <2>4, <2>5, ReferencesKind
<1>3. ASSUME Sound', UNCHANGED vars PROVE References'
  <2>1. References
    BY <1>3 DEF ReferencesUnless, Sound, vars
  <2>2. Typed'
    BY <1>1 DEF Prompt
  <2>3. Even /\ SameRecords
    BY <1>3, <2>1, SettledEven, CountSettles, QuietRecords DEF vars
  <2> QED
    BY <2>1, <2>2, <2>3, QuietReferences
<1> QED
  BY <1>1, <1>2, <1>3 DEF ReferencesUnless

LEMMA ReferencesAlways == Spec => []ReferencesUnless
<1>1. Init => ReferencesUnless
  BY PromptInit, ReferencesInit DEF ReferencesUnless
<1>2. ReferencesUnless /\ [Next]_vars => ReferencesUnless'
  BY ReferencesUnlessNext
<1> QED
  BY <1>1, <1>2, PTL DEF Spec

\* Until VMCIContext_Get has handed out a context that it took no reference to,
\* the count of each context is what the list and the calls hold of it: nobody
\* drops a reference twice, or goes without dropping the one it has.
THEOREM CountsUntilStale == Spec => [](Sound => RefCountIsHolders)
<1>1. ReferencesUnless => (Sound => RefCountIsHolders)
  BY ReferencesShow DEF ReferencesUnless
<1> QED
  BY <1>1, ReferencesAlways, PTL

\* Until then a context whose references are gone is freed by exactly one thread,
\* and the list holds no context that has been freed, whatever the allocator does
\* with the memory.
THEOREM FreedOnceUntilStale == Spec => [](Sound => FreedOnceByOne)
<1>1. ReferencesUnless => (Sound => FreedOnceByOne)
  BY ReferencesShow DEF ReferencesUnless
<1> QED
  BY <1>1, ReferencesAlways, PTL

-----------------------------------------------------------------------------
(* The lives: one context to a slot, where freed memory is not handed out again *)

\* A slot that has been a context, and one that has been one and has no references.
Used(c) == context[c].cid # NoId
Dead(c) == Used(c) /\ context[c].refCount = 0

Untouched == \A c \in Contexts : ~Used(c) => ~context[c].allocated

\* What a search has missed stays another context; what is freed stays dead.
RecordFits(r) ==
  /\ r.pc \in Missing => Used(r.ctx) /\ context[r.ctx].cid # r.to
  /\ r.pc \in FreePc => Dead(r.ctx)
RecordsFit == \A t \in Threads : \A n \in 1..Len(stack[t]) : RecordFits(stack[t][n])
RecordsHaveFit == \A t \in Threads : \A n, r : Has(t, n, r) => RecordFits(r)

Lives == References /\ Untouched /\ RecordsFit

\* Ids and privileges are for good, and so is the end.
Grows ==
  \A c \in Contexts :
    /\ Used(c) => context'[c].cid = context[c].cid /\ context'[c].priv = context[c].priv
    /\ Dead(c) => context'[c].refCount = 0

LEMMA GrowsUsed ==
  ASSUME Grows, NEW c \in Contexts
  PROVE  (Used(c) => Used(c)') /\ (Dead(c) => Dead(c)')
  BY DEF Grows, Used, Dead

LEMMA SettledGrows ==
  ASSUME Settled, Untouched
  PROVE  Grows /\ Untouched'
  BY DEF Settled, Unmoved, Grows, Dead, Used, Untouched

\* A step on one context that goes on being the one it is.
LEMMA OneGrows ==
  ASSUME Untouched, NEW c \in Contexts, Only(c),
         context'[c].cid = context[c].cid, context'[c].priv = context[c].priv,
         Dead(c) => context'[c].refCount = 0,
         context'[c].allocated => context[c].allocated
  PROVE  Grows /\ Untouched'
  BY DEF Only, Grows, Dead, Used, Untouched

LEMMA FitHas == Typed => (RecordsFit <=> RecordsHaveFit)
<1> SUFFICES ASSUME Typed PROVE RecordsFit <=> RecordsHaveFit
  OBVIOUS
<1>1. \A r : r.pc \in Plain => RecordFits(r)
  BY DEF RecordFits, Plain, FilePc, Missing, FreePc
<1> QED
  BY <1>1 DEF RecordsFit, RecordsHaveFit, Has

LEMMA FitGrows ==
  ASSUME Grows, NEW r \in Frames, RecordFits(r)
  PROVE  RecordFits(r)'
<1>1. r.pc \in Missing \cup FreePc => r.ctx \in Contexts
  <2>1. \A q \in Frees : q.ctx \in Contexts
    BY DEF Frees
  <2> QED
    BY <2>1, Kinds
<1> QED
  BY <1>1, GrowsUsed DEF RecordFits, Grows

LEMMA FitStep ==
  ASSUME Typed, RecordsFit, Typed', Grows, NEW t \in Threads, NEW a, NEW b, Becomes(t, a, b),
         \A r \in a \cup b : RecordFits(r)'
  PROVE  RecordsFit'
<1>1. RecordsHaveFit
  BY FitHas
<1>2. ASSUME NEW u \in Threads, NEW n, NEW r, Has(u, n, r)' PROVE RecordFits(r)'
  <2>1. CASE r \in a \cup b
    BY <2>1
  <2>2. CASE r \notin a \cup b
    <3>1. Has(u, n, r)
      BY <1>2, <2>2 DEF Becomes
    <3>2. r \in Frames /\ RecordFits(r)
      BY <1>1, <3>1, HasKind DEF RecordsHaveFit
    <3> QED
      BY <3>2, FitGrows
  <2> QED
    BY <2>1, <2>2
<1>3. RecordsHaveFit'
  BY <1>2 DEF RecordsHaveFit
<1>4. Typed'
  OBVIOUS
<1> QED
  BY <1>3, <1>4, FitHas, PTL

LEMMA FitSame ==
  ASSUME Typed, RecordsFit, Typed', Grows, SameRecords
  PROVE  RecordsFit'
<1>1. RecordsHaveFit
  BY FitHas
<1>2. ASSUME NEW u \in Threads, NEW n, NEW r, Has(u, n, r)' PROVE RecordFits(r)'
  <2>1. Has(u, n, r)
    BY <1>2 DEF SameRecords
  <2>2. r \in Frames /\ RecordFits(r)
    BY <1>1, <2>1, HasKind DEF RecordsHaveFit
  <2> QED
    BY <2>2, FitGrows
<1>3. RecordsHaveFit'
  BY <1>2 DEF RecordsHaveFit
<1>4. Typed'
  OBVIOUS
<1> QED
  BY <1>3, <1>4, FitHas, PTL

\* What fits the top of a stack and what has to fit.
LEMMA TopFits ==
  ASSUME Typed, RecordsFit, NEW t \in Threads, ~Idle(t)
  PROVE  RecordFits(Top(t))
<1>1. Top(t) = stack[t][Kept(t) + 1] /\ Len(stack[t]) = Kept(t) + 1 /\ Kept(t) \in Nat
  BY Tops DEF Idle
<1>2. Kept(t) + 1 \in 1..Len(stack[t])
  BY <1>1
<1> QED
  BY <1>1, <1>2 DEF RecordsFit

LEMMA EasyFit ==
  ASSUME NEW r, r.pc \notin Missing \cup FreePc
  PROVE  RecordFits(r)'
  BY DEF RecordFits

LEMMA NoMistakes ==
  ASSUME Lives, NEW t \in Threads
  PROVE  ~Mistakes(t)
  BY TopFits DEF Lives, References, Mistakes, DispatchAt, RecordFits

\* Whom the count names is dead or not.
LEMMA Names ==
  ASSUME Lives, NEW c \in Contexts
  PROVE  /\ Held(c) => Used(c) /\ ~Dead(c)
         /\ Dying(c) => Dead(c)
         /\ Listed(c) => Used(c) /\ ~Dead(c)
         /\ ~Used(c) => context[c].datagramQueue = <<>>
  BY Numbers DEF Lives, References, Untouched, Vacant, Held, Dying, Dead

Follows == Grows /\ Lives'

LEMMA LivesCalls ==
  ASSUME Lives, Typed', NEW t \in Threads, NEW c, ~ReuseMemory, References',
         Quiet \/ Sends(t) \/ (c \in Contexts /\ (Takes(c) \/ Begins(c) \/ Leaves(t, c)))
  PROVE  Follows
<1>1. Typed /\ References /\ Untouched /\ RecordsFit
  BY DEF Lives, References
<1>2. CASE Quiet
  BY <1>1, <1>2, SettledGrows, FitSame DEF Quiet, Follows, Lives
<1>3. CASE c \in Contexts /\ Takes(c)
  <2>1. Grows /\ Untouched'
    BY <1>1, <1>3, OneGrows DEF Takes, Owns, Dead
  <2> QED
    BY <1>1, <1>3, <2>1, FitSame DEF Takes, Follows, Lives
<1>4. CASE c \in Contexts /\ Begins(c)
  <2>1. ~Used(c)
    BY <1>4 DEF Begins, Used
  <2>2. Used(c)' /\ Only(c) /\ SameRecords
    BY <1>4, IdAssumption DEF Begins, Used
  <2>3. Grows /\ Untouched'
    BY <1>1, <2>1, <2>2 DEF Only, Grows, Dead, Used, Untouched
  <2> QED
    BY <1>1, <2>2, <2>3, FitSame DEF Follows, Lives
<1>5. CASE Sends(t)
  <2>1. Grows /\ Untouched'
    BY <1>1, <1>5, SettledGrows DEF Sends
  <2>2. PICK q \in Frames : q.pc \in {"get", "check"} /\ Becomes(t, {q}, {})
    BY <1>5 DEF Sends
  <2>3. RecordFits(q)'
    BY <2>2, EasyFit DEF Missing, FreePc
  <2>4. RecordsFit'
    BY <1>1, <2>1, <2>2, <2>3, FitStep
  <2> QED
    BY <2>1, <2>4 DEF Follows, Lives
<1>6. CASE c \in Contexts /\ Leaves(t, c)
  <2>1. Grows /\ Untouched'
    BY <1>1, <1>6, SettledGrows DEF Leaves
  <2>2. RecordFits(On(c, "put"))'
    BY EasyFit DEF On, Missing, FreePc
  <2>3. RecordsFit'
    BY <1>1, <1>6, <2>1, <2>2, FitStep DEF Leaves
  <2> QED
    BY <2>1, <2>3 DEF Follows, Lives
<1> QED
  BY <1>2, <1>3, <1>4, <1>5, <1>6

LEMMA LivesSearch ==
  ASSUME Lives, Typed', NEW t \in Threads, NEW c, References',
         GivesUp(t) \/ (c \in Contexts /\ (Looks(t, c) \/ Gets(t, c)))
  PROVE  Follows
<1>1. Typed /\ References /\ Untouched /\ RecordsFit
  BY DEF Lives, References
<1>2. CASE GivesUp(t)
  <2>1. Grows /\ Untouched'
    BY <1>1, <1>2, SettledGrows DEF GivesUp
  <2>2. CASE Becomes(t, {}, {})
    BY <1>1, <2>1, <2>2, FitStep DEF Follows, Lives
  <2>3. ASSUME NEW q, MovesOn(t, q, "get"), Becomes(t, {q}, {}) PROVE RecordsFit'
    <3>1. RecordFits(q)'
      BY <2>3, EasyFit DEF MovesOn, Missing, FreePc
    <3> QED
      BY <1>1, <2>1, <2>3, <3>1, FitStep
  <2> QED
    BY <1>2, <2>1, <2>2, <2>3 DEF GivesUp, Follows, Lives
<1>3. CASE c \in Contexts /\ Looks(t, c)
  <2>0. c \in Contexts /\ Looks(t, c)
    BY <1>3
  <2>1. Grows /\ Untouched'
    BY <1>1, <1>3, SettledGrows DEF Looks
  <2>2. PICK q : q.ctx = c /\ Becomes(t, {q}, {}) /\ q.pc \in Missing /\ q.to = Top(t).to
    BY <1>3 DEF Looks, MovesOn, Missing
  <2>3. Used(c) /\ context[c].cid # q.to
    BY <1>3, <2>2, Names DEF Looks, Exists, Listed
  <2>4. Used(c)' /\ context'[c].cid # q.to
    BY <2>0, <2>1, <2>3, GrowsUsed DEF Grows
  <2>5. q.pc \notin FreePc
    BY <2>2 DEF Missing, FreePc
  <2>6. RecordFits(q)'
    BY <2>2, <2>4, <2>5 DEF RecordFits, Used
  <2>7. RecordsFit'
    BY <1>1, <2>1, <2>2, <2>6, FitStep
  <2> QED
    BY <2>1, <2>7 DEF Follows, Lives
<1>4. CASE c \in Contexts /\ Gets(t, c)
  <2>0. c \in Contexts /\ Gets(t, c)
    BY <1>4
  <2>1. Held(c)
    BY <1>1, <1>4, GetsReferences
  <2>2. Grows /\ Untouched'
    BY <1>1, <1>4, <2>1, OneGrows, Names DEF Gets, Recounted
  <2>3. PICK q : /\ q.ctx = c /\ Becomes(t, {q}, {}) /\ q.pc \in {"checked", "enqueue"}
                 /\ Top(t).pc \in {"check", "get"}
    BY <2>0 DEF Gets, MovesOn, DispatchAt
  <2>4. RecordFits(q)'
    BY <2>3, EasyFit DEF Missing, FreePc
  <2>5. RecordsFit'
    BY <1>1, <2>2, <2>3, <2>4, FitStep
  <2> QED
    BY <2>2, <2>5 DEF Follows, Lives
<1> QED
  BY <1>2, <1>3, <1>4

LEMMA LivesDelivery ==
  ASSUME Lives, Typed', NEW t \in Threads, NEW c, References',
         Refuses(t) \/ (c \in Contexts /\ (Delivers(t, c) \/ Drops(t, c)))
  PROVE  Follows
<1>1. Typed /\ References /\ Untouched /\ RecordsFit
  BY DEF Lives, References
<1>2. ASSUME Grows, Untouched', NEW q, MovesOn(t, q, "release"), Becomes(t, {q}, {})
      PROVE  Follows
  <2>1. RecordFits(q)'
    BY <1>2, EasyFit DEF MovesOn, Missing, FreePc
  <2>2. RecordsFit'
    BY <1>1, <1>2, <2>1, FitStep
  <2> QED
    BY <1>2, <2>2 DEF Follows, Lives
<1>3. CASE Refuses(t)
  BY <1>1, <1>2, <1>3, SettledGrows DEF Refuses
<1>4. CASE c \in Contexts /\ Delivers(t, c)
  <2>1. Grows /\ Untouched'
    BY <1>1, <1>4, OneGrows DEF Delivers, Owns, Dead
  <2> QED
    BY <1>2, <1>4, <2>1 DEF Delivers
<1>5. CASE c \in Contexts /\ Drops(t, c)
  <2>0. c \in Contexts /\ Drops(t, c)
    BY <1>5
  <2>1. Held(c)
    BY <1>1, <1>5, DropsReferences
  <2>2. Used(c) /\ ~Dead(c)
    BY <2>0, <2>1, Names
  <2>3. Recounted(c, context[c].refCount - 1)
    BY <1>5 DEF Drops
  <2>4. Grows /\ Untouched'
    BY <1>1, <2>0, <2>2, <2>3, OneGrows DEF Recounted
  <2>5. PICK a, b : DropsTo(t, c, a, b)
    BY <1>5, DropsAre
  <2>6. ASSUME NEW r \in a \cup b PROVE RecordFits(r)'
    <3>1. CASE context[c].refCount = 1 /\ r = Freeing(c)
      <4>1. Dead(c)'
        BY <2>2, <2>3, <3>1 DEF Recounted, Dead, Used
      <4>2. Freeing(c).pc = "scan" /\ Freeing(c).ctx = c
        BY DEF Freeing
      <4> QED
        BY <3>1, <4>1, <4>2 DEF RecordFits, Missing, FreePc, Dead, Used
    <3>2. CASE r.pc = "get"
      BY <3>2, EasyFit DEF Missing, FreePc
    <3> QED
      BY <2>5, <2>6, <3>1, <3>2 DEF DropsTo, Asked
  <2>7. RecordsFit'
    BY <1>1, <2>4, <2>5, <2>6, FitStep DEF DropsTo
  <2> QED
    BY <2>4, <2>7 DEF Follows, Lives
<1> QED
  BY <1>3, <1>4, <1>5

LEMMA LivesFree ==
  ASSUME Lives, Typed', NEW t \in Threads, NEW c \in Contexts,
         References', Scans(t, c) \/ Fires(t, c) \/ GivesBack(t, c)
  PROVE  Follows
<1>1. Typed /\ References /\ Untouched /\ RecordsFit
  BY DEF Lives, References
<1>2. Dead(c)
  BY <1>1, ScansReferences, FiresReferences, GivesBackReferences, Names
<1>3. ASSUME Grows, NEW q, q.pc = "fire", q.ctx = c PROVE RecordFits(q)'
  BY <1>2, <1>3, GrowsUsed DEF RecordFits, Missing, FreePc, Dead, Used
<1>4. CASE Scans(t, c)
  <2>1. Grows /\ Untouched'
    BY <1>1, <1>4, SettledGrows DEF Scans
  <2>2. PICK q : q.pc = "fire" /\ q.ctx = c /\ Becomes(t, {q}, {})
    BY <1>4 DEF Scans
  <2>3. RecordFits(q)'
    BY <1>3, <2>1, <2>2
  <2>4. RecordsFit'
    BY <1>1, <2>1, <2>2, <2>3, FitStep
  <2> QED
    BY <2>1, <2>4 DEF Follows, Lives
<1>5. CASE Fires(t, c)
  <2>1. Grows /\ Untouched'
    BY <1>1, <1>5, SettledGrows DEF Fires
  <2>2. PICK q, e : q.pc = "fire" /\ q.ctx = c /\ e.pc = "check" /\ Becomes(t, {q}, {e})
    BY <1>5 DEF Fires
  <2>3. RecordFits(q)'
    BY <1>3, <2>1, <2>2
  <2>4. RecordFits(e)'
    BY <2>2, EasyFit DEF Missing, FreePc
  <2>5. RecordsFit'
    BY <1>1, <2>1, <2>2, <2>3, <2>4, FitStep
  <2> QED
    BY <2>1, <2>5 DEF Follows, Lives
<1>6. CASE GivesBack(t, c)
  <2>1. Grows /\ Untouched'
    BY <1>1, <1>6, OneGrows DEF GivesBack, Owns
  <2>2. RecordsFit'
    BY <1>1, <1>6, <2>1, FitStep DEF GivesBack
  <2> QED
    BY <2>1, <2>2 DEF Follows, Lives
<1> QED
  BY <1>4, <1>5, <1>6

LEMMA LivesKind ==
  ASSUME Lives, Typed', ~ReuseMemory, NEW t \in Threads, Kind(t)
  PROVE  Follows
<1>1. ~Mistakes(t)
  BY NoMistakes
<1>2. References'
  BY <1>1, ReferencesKind DEF Lives
<1>3. CASE Quiet \/ Sends(t) \/ GivesUp(t) \/ Refuses(t)
  BY <1>2, <1>3, LivesCalls, LivesSearch, LivesDelivery
<1>4. ASSUME NEW c \in Contexts,
             \/ Takes(c) \/ Begins(c) \/ Leaves(t, c) \/ Looks(t, c) \/ Gets(t, c)
             \/ Delivers(t, c) \/ Drops(t, c)
             \/ Scans(t, c) \/ Fires(t, c) \/ GivesBack(t, c)
      PROVE  Follows
  BY <1>2, <1>4, LivesCalls, LivesSearch, LivesDelivery, LivesFree
<1> QED
  BY <1>1, <1>3, <1>4 DEF Kind

-----------------------------------------------------------------------------
(* The events *)

IsEventFor(r) == r.pc \in DispatchPc /\ IsEvent(r.msg)

\* The target in hand is the one that was asked for.
TargetFits(r) ==
  /\ r.pc \in DispatchPc => r.to # NoId
  /\ r.pc \in Targeting => Used(r.ctx) /\ context[r.ctx].cid = r.to
  /\ r.pc \in FreePc => NoId \notin r.todo
TargetsFit == \A t \in Threads : \A n, r : Has(t, n, r) => TargetFits(r)

\* An event is on top of the free that fires it, which does not fire it again.
Fired(t, n, r) ==
  \E q : Has(t, n - 1, q) /\ q.pc = "fire" /\ q.ctx = r.msg.from /\ r.to \notin q.todo
EventsFollow ==
  \A t \in Threads : \A n, r :
    Has(t, n, r) /\ IsEventFor(r) => Dead(r.msg.from) /\ Fired(t, n, r)

HasEvent(c, d) ==
  \E n \in 1..Len(context[c].datagramQueue) :
    IsEvent(context[c].datagramQueue[n]) /\ context[c].datagramQueue[n].from = d

\* Where it has been delivered it is not fired any more ...
Spent(d, i) ==
  \A t \in Threads : \A n, r :
    Has(t, n, r) /\ r.pc \in FreePc /\ r.ctx = d => r.pc = "fire" /\ i \notin r.todo
DeliveredIsDone ==
  \A c, d \in Contexts : HasEvent(c, d) => Dead(d) /\ Spent(d, context[c].cid)

\* ... and where it is under way it has not been.
NotYetDelivered ==
  \A t \in Threads : \A n, r :
    Has(t, n, r) /\ IsEventFor(r) /\ r.pc # "release" =>
      \A c \in Contexts : context[c].cid = r.to => ~HasEvent(c, r.msg.from)

OnceIn(c) ==
  \A n, m \in 1..Len(context[c].datagramQueue) :
    (/\ IsEvent(context[c].datagramQueue[n]) /\ IsEvent(context[c].datagramQueue[m])
     /\ context[c].datagramQueue[n].from = context[c].datagramQueue[m].from) => n = m
Once == \A c \in Contexts : OnceIn(c)

Events ==
  Lives /\ TargetsFit /\ EventsFollow /\ DeliveredIsDone /\ NotYetDelivered /\ Once

\* Only one thread frees a context, at one place of its stack.
LEMMA OneFreer ==
  ASSUME References, NEW c \in Contexts,
         NEW t \in Threads, NEW n, NEW r, Has(t, n, r), r.pc \in FreePc, r.ctx = c,
         NEW u \in Threads, NEW m, NEW q, Has(u, m, q), q.pc \in FreePc, q.ctx = c
  PROVE  t = u /\ n = m /\ r = q
<1>1. <<t, n>> \in Claimants(c, FreePc) /\ <<u, m>> \in Claimants(c, FreePc)
  BY ClaimsMapped, ClaimantsAre DEF References, ClaimMap, Claims
<1>2. /\ IsFiniteSet(Claimants(c, FreePc))
      /\ Cardinality(Claimants(c, FreePc)) =
           (IF context[c].allocated /\ context[c].refCount = 0 THEN 1 ELSE 0)
  BY DEF References, Counted, CountFits
<1>3. Dying(c)
  BY <1>1, Numbers
<1>4. Cardinality(Claimants(c, FreePc)) = 1
  BY <1>2, <1>3 DEF Dying
<1>5. PICK x : Claimants(c, FreePc) = {x}
  BY <1>2, <1>4, FS_Singleton
<1>6. <<t, n>> = <<u, m>>
  BY <1>1, <1>5
<1> QED
  BY <1>6 DEF Has

\* How a thread's records come to be, as far as targets, events and frees go.
Continues(t, r) ==
  /\ ~Idle(t) /\ IsEventFor(Top(t)) /\ r.to = Top(t).to /\ r.msg = Top(t).msg
  /\ Top(t).pc = "release" => r.pc = "release"
FiredBy(t, a, r) ==
  /\ r.msg.from \in Contexts /\ Dead(r.msg.from)
  /\ FreesAt(t, "fire", r.msg.from) /\ r.to \in Top(t).todo
  /\ \E q \in a : q.pc = "fire" /\ q.ctx = r.msg.from /\ r.to \notin q.todo
FreesOn(t, r) ==
  \/ ~Dead(r.ctx)
  \/ FreesAt(t, "scan", r.ctx)
  \/ FreesAt(t, "fire", r.ctx) /\ r.pc = "fire" /\ r.todo \subseteq Top(t).todo
Orderly(t, a, b) ==
  /\ Becomes(t, a, b)
  /\ \A r \in a \cup b : TargetFits(r)'
  /\ \A r \in a : IsEventFor(r) => Continues(t, r)
  /\ \A r \in b : IsEventFor(r) => FiredBy(t, a, r)
  /\ \A r \in a \cup b : r.pc \in FreePc => FreesOn(t, r)

LEMMA TopTarget ==
  ASSUME Events, NEW t \in Threads, ~Idle(t), Top(t).pc \notin Plain
  PROVE  Has(t, Kept(t) + 1, Top(t)) /\ TargetFits(Top(t))
  BY HasTop DEF Events, Lives, References, TargetsFit

LEMMA TargetGrows ==
  ASSUME Grows, NEW r \in Frames, TargetFits(r)
  PROVE  TargetFits(r)'
<1>1. r.pc \in Targeting => r.ctx \in Contexts
  BY Kinds
<1> QED
  BY <1>1, GrowsUsed DEF TargetFits, Grows

\* A dispatch that has no target yet, and one that has found it.
LEMMA AskFits ==
  ASSUME NEW r, r.pc \in DispatchPc \ Targeting, r.to # NoId
  PROVE  TargetFits(r)'
  BY DEF TargetFits, DispatchPc, FreePc

LEMMA FoundFits ==
  ASSUME Grows, NEW r, r.pc \in Targeting, r.to # NoId, r.ctx \in Contexts,
         context[r.ctx].cid = r.to
  PROVE  TargetFits(r)'
<1>1. Used(r.ctx)
  BY DEF Used
<1>2. Used(r.ctx)' /\ context'[r.ctx].cid = r.to
  BY <1>1, GrowsUsed DEF Grows
<1> QED
  BY <1>2 DEF TargetFits, Targeting, FreePc, Used

\* A step that leaves the records alone, seen as one of t.
LEMMA SameOrderly ==
  ASSUME Events, Grows, NEW t \in Threads, SameRecords
  PROVE  \E a, b : Orderly(t, a, b)
<1> PICK a : a = {r \in {Top(t)} : Has(t, Kept(t) + 1, r)}
  OBVIOUS
<1>1. Typed
  BY DEF Events, Lives, References
<1>2. Becomes(t, a, {})
  BY <1>1, HasTop DEF SameRecords, Becomes, Place
<1>3. \A r \in a : /\ r = Top(t) /\ ~Idle(t) /\ r.pc \notin Plain /\ r \in Frames
                   /\ TargetFits(r)
  BY <1>1, HasTop, TopTarget, HasKind
<1>4. \A r \in a : TargetFits(r)'
  BY <1>3, TargetGrows
<1>5. \A r \in a : IsEventFor(r) => Continues(t, r)
  BY <1>3 DEF Continues
<1>6. ASSUME NEW r \in a, r.pc \in FreePc PROVE FreesOn(t, r)
  <2>1. r \in Frees
    BY <1>3, <1>6, Kinds
  <2> QED
    BY <1>3, <1>6, <2>1 DEF FreesOn, FreesAt, FreePc
<1>7. Orderly(t, a, {})
  BY <1>2, <1>4, <1>5, <1>6 DEF Orderly
<1> QED
  BY <1>7

\* A dispatch that goes on is the same event, if it is one.
LEMMA MovesContinues ==
  ASSUME NEW t \in Threads, NEW q, NEW pc, MovesOn(t, q, pc),
         NEW S, DispatchAt(t, S), S \subseteq DispatchPc \ {"release"}
  PROVE  (IsEventFor(q) => Continues(t, q)) /\ q.pc \notin FreePc
  BY DEF MovesOn, DispatchAt, IsEventFor, Continues, Dispatches, DispatchPc, FreePc

LEMMA MovesTo ==
  ASSUME Events, NEW t \in Threads, NEW S, DispatchAt(t, S), S \subseteq DispatchPc
  PROVE  Top(t).to # NoId /\ Top(t).pc \in DispatchPc /\ TargetFits(Top(t))
<1>1. Top(t).pc \in DispatchPc /\ ~Idle(t)
  BY DEF DispatchAt
<1>2. Top(t).pc \notin Plain
  BY <1>1, PlainIs
<1> QED
  BY <1>1, <1>2, TopTarget DEF TargetFits

LEMMA OrderlySearch ==
  ASSUME Events, Grows, NEW t \in Threads, NEW c \in Contexts, Sends(t) \/ Looks(t, c) \/ Gets(t, c)
  PROVE  \E a, b : Orderly(t, a, b)
<1>1. CASE Sends(t)
  <2>1. PICK q \in Frames : /\ q.pc \in {"get", "check"} /\ ~IsEvent(q.msg) /\ q.to \in Ids
                            /\ Becomes(t, {q}, {})
    BY <1>1 DEF Sends
  <2>2. q.pc \in DispatchPc \ Targeting /\ q.pc \notin FreePc /\ q.to # NoId
    BY <2>1, IdAssumption DEF DispatchPc, Targeting, FreePc
  <2>3. TargetFits(q)'
    BY <2>2, AskFits
  <2>4. Orderly(t, {q}, {})
    BY <2>1, <2>2, <2>3 DEF Orderly, IsEventFor
  <2> QED
    BY <2>4
<1>2. CASE Looks(t, c)
  <2>1. PICK q : /\ Becomes(t, {q}, {})
                 /\ \/ DispatchAt(t, {"check"}) /\ MovesOn(t, q, "check_missed")
                    \/ DispatchAt(t, {"get"}) /\ MovesOn(t, q, "get_missed")
    BY <1>2 DEF Looks
  <2>2. DispatchAt(t, {"check", "get"}) /\ {"check", "get"} \subseteq DispatchPc \ {"release"}
    BY <2>1 DEF DispatchAt, DispatchPc
  <2>3. (IsEventFor(q) => Continues(t, q)) /\ q.pc \notin FreePc
    BY <2>1, <2>2, MovesContinues
  <2>4. q.pc \in DispatchPc \ Targeting
    BY <2>1 DEF MovesOn, DispatchPc, Targeting
  <2>5. q.to # NoId
    BY <2>1, <2>2, MovesTo DEF MovesOn
  <2>6. TargetFits(q)'
    BY <2>4, <2>5, AskFits
  <2>7. Orderly(t, {q}, {})
    BY <2>1, <2>3, <2>6 DEF Orderly
  <2> QED
    BY <2>7
<1>3. CASE Gets(t, c)
  <2>1. PICK q : /\ q.ctx = c /\ Becomes(t, {q}, {})
                 /\ \/ DispatchAt(t, {"check"}) /\ MovesOn(t, q, "checked")
                    \/ DispatchAt(t, {"get"}) /\ MovesOn(t, q, "enqueue")
    BY <1>3 DEF Gets
  <2>2. DispatchAt(t, {"check", "get"}) /\ {"check", "get"} \subseteq DispatchPc \ {"release"}
    BY <2>1 DEF DispatchAt, DispatchPc
  <2>3. (IsEventFor(q) => Continues(t, q)) /\ q.pc \notin FreePc
    BY <2>1, <2>2, MovesContinues
  <2>4. q.pc \in Targeting /\ context[q.ctx].cid = q.to
    BY <1>3, <2>1 DEF Gets, MovesOn, Targeting
  <2>5. q.to # NoId
    BY <2>1, <2>2, MovesTo DEF MovesOn
  <2>6. TargetFits(q)'
    BY <2>1, <2>4, <2>5, FoundFits
  <2>7. Orderly(t, {q}, {})
    BY <2>1, <2>3, <2>6 DEF Orderly
  <2> QED
    BY <2>7
<1> QED
  BY <1>1, <1>2, <1>3

LEMMA OrderlyAway ==
  ASSUME Events, Grows, NEW t \in Threads, GivesUp(t)
  PROVE  \E a, b : Orderly(t, a, b)
<1>1. CASE Becomes(t, {}, {})
  <2>1. Orderly(t, {}, {})
    BY <1>1 DEF Orderly
  <2> QED
    BY <2>1
<1>2. ASSUME NEW q, MovesOn(t, q, "get"), Becomes(t, {q}, {}) PROVE Orderly(t, {q}, {})
  <2> DEFINE S == {"check", "check_missed", "get", "get_missed"}
  <2>1. DispatchAt(t, S) /\ S \subseteq DispatchPc \ {"release"}
    BY DEF GivesUp, DispatchPc
  <2> HIDE DEF S
  <2>2. (IsEventFor(q) => Continues(t, q)) /\ q.pc \notin FreePc
    BY <1>2, <2>1, MovesContinues
  <2>3. q.pc \in DispatchPc \ Targeting
    BY <1>2 DEF MovesOn, DispatchPc, Targeting
  <2>4. q.to # NoId
    BY <1>2, <2>1, MovesTo DEF MovesOn
  <2>5. TargetFits(q)'
    BY <2>3, <2>4, AskFits
  <2> QED
    BY <1>2, <2>2, <2>5 DEF Orderly
<1> QED
  BY <1>1, <1>2 DEF GivesUp

LEMMA OrderlyDelivery ==
  ASSUME Events, Grows, NEW t \in Threads, DispatchAt(t, {"enqueue"}),
         NEW q, MovesOn(t, q, "release"), q.ctx = Top(t).ctx, Becomes(t, {q}, {})
  PROVE  Orderly(t, {q}, {})
<1>1. {"enqueue"} \subseteq DispatchPc \ {"release"}
  BY DEF DispatchPc
<1>2. (IsEventFor(q) => Continues(t, q)) /\ q.pc \notin FreePc
  BY <1>1, MovesContinues
<1>3. Top(t).to # NoId /\ TargetFits(Top(t)) /\ Top(t).pc = "enqueue"
  BY <1>1, MovesTo DEF DispatchAt
<1>4. q.pc \in Targeting /\ context[q.ctx].cid = q.to /\ q.to # NoId
  BY <1>3 DEF TargetFits, MovesOn, Targeting
<1>5. q.ctx \in Contexts
  BY <1>4, Kinds DEF MovesOn
<1>6. TargetFits(q)'
  BY <1>4, <1>5, FoundFits
<1> QED
  BY <1>2, <1>6 DEF Orderly

LEMMA OrderlyDrop ==
  ASSUME Events, Grows, Typed', NEW t \in Threads, NEW c \in Contexts,
         Leaves(t, c) \/ Drops(t, c)
  PROVE  \E a, b : Orderly(t, a, b)
<1>1. CASE Leaves(t, c)
  <2>1. PICK r : r = On(c, "put")
    OBVIOUS
  <2>2. r.pc = "put" /\ r.pc \notin DispatchPc \cup Targeting \cup FreePc
    BY <2>1 DEF On, DispatchPc, Targeting, FreePc
  <2>3. TargetFits(r)'
    BY <2>2 DEF TargetFits
  <2>4. Orderly(t, {r}, {})
    BY <1>1, <2>1, <2>2, <2>3 DEF Leaves, Orderly, IsEventFor
  <2> QED
    BY <2>4
<1>2. CASE Drops(t, c)
  <2>1. PICK a, b : DropsTo(t, c, a, b)
    BY <1>2, DropsAre
  <2>2. References
    BY DEF Events, Lives
  <2>3. Held(c)
    BY <1>2, <2>2, DropsReferences
  <2>4. ~Dead(c)
    BY <2>3, Names DEF Events
  <2>5. ASSUME NEW r, Asked(t, c, r)
        PROVE  TargetFits(r)' /\ (IsEventFor(r) => Continues(t, r)) /\ r.pc \notin FreePc
    <3>1. {"checked"} \subseteq DispatchPc \ {"release"} /\ DispatchAt(t, {"checked"})
          /\ MovesOn(t, r, "get")
      BY <2>5 DEF Asked, DispatchPc
    <3>2. (IsEventFor(r) => Continues(t, r)) /\ r.pc \notin FreePc
      BY <3>1, MovesContinues
    <3>3. r.to # NoId /\ r.pc \in DispatchPc \ Targeting
      BY <3>1, MovesTo DEF MovesOn, DispatchPc, Targeting
    <3> QED
      BY <3>2, <3>3, AskFits
  <2>6. PICK f : f = Freeing(c)
    OBVIOUS
  <2>7. f.pc = "scan" /\ f.ctx = c /\ f.todo = {}
    BY <2>6 DEF Freeing
  <2>8. f.pc \notin DispatchPc \cup Targeting
    BY <2>7 DEF DispatchPc, Targeting
  <2>9. TargetFits(f)' /\ ~IsEventFor(f) /\ FreesOn(t, f)
    BY <2>4, <2>7, <2>8 DEF TargetFits, IsEventFor, FreesOn
  <2>10. \A r \in b : r = f \/ Asked(t, c, r)
    BY <2>1, <2>6 DEF DropsTo
  <2>11. \A r \in a : r = f \/ Asked(t, c, r)
    BY <2>1, <2>6 DEF DropsTo
  <2>12. \A r \in a \cup b : /\ TargetFits(r)' /\ (r.pc \in FreePc => FreesOn(t, r))
                             /\ IsEventFor(r) => Continues(t, r)
    BY <2>5, <2>9, <2>10, <2>11
  <2>13. context[c].refCount = 1 => \A r \in b : ~IsEventFor(r)
    BY <2>1, <2>6, <2>9 DEF DropsTo
  <2>14. CASE context[c].refCount = 1
    <3>1. Orderly(t, a, b)
      BY <2>1, <2>12, <2>13, <2>14 DEF Orderly, DropsTo
    <3> QED
      BY <3>1
  <2>15. CASE context[c].refCount # 1
    <3>1. PICK a1 : Becomes(t, a1, {}) /\ \A r \in a1 : Asked(t, c, r)
      BY <1>2, <2>15, DropsOn
    <3>2. Orderly(t, a1, {})
      BY <2>5, <3>1 DEF Orderly
    <3> QED
      BY <3>2
  <2> QED
    BY <2>14, <2>15
<1> QED
  BY <1>1, <1>2

LEMMA OrderlyFree ==
  ASSUME Events, Grows, NEW t \in Threads, NEW c \in Contexts,
         Scans(t, c) \/ Fires(t, c) \/ GivesBack(t, c)
  PROVE  \E a, b : Orderly(t, a, b)
<1>1. Lives /\ References
  BY DEF Events, Lives
<1>2. CASE Scans(t, c)
  <2>1. PICK q \in Frames : /\ q.pc = "fire" /\ q.ctx = c /\ Becomes(t, {q}, {})
                            /\ q.todo = {context[d].cid : d \in Subscribers(c)}
    BY <1>2 DEF Scans
  <2>2. \A d \in Subscribers(c) : d \in Contexts /\ Listed(d)
    BY <1>1 DEF Subscribers, Listed, References, Typed, Range
  <2>3. NoId \notin q.todo
    BY <1>1, <2>1, <2>2, Names DEF Used
  <2>4. TargetFits(q)' /\ ~IsEventFor(q)
    BY <2>1, <2>3 DEF TargetFits, IsEventFor, DispatchPc, Targeting
  <2>5. FreesOn(t, q)
    BY <1>2, <2>1 DEF FreesOn, Scans
  <2>6. Orderly(t, {q}, {})
    BY <2>1, <2>4, <2>5 DEF Orderly
  <2> QED
    BY <2>6
<1>3. CASE Fires(t, c)
  <2>1. PICK i \in Top(t).todo, q \in Frames, e \in Frames :
          /\ q.pc = "fire" /\ q.ctx = c /\ q.todo = Top(t).todo \ {i}
          /\ e.pc = "check" /\ e.to = i /\ e.msg = EventOf(c)
          /\ Becomes(t, {q}, {e})
    BY <1>3 DEF Fires
  <2>2. FreesAt(t, "fire", c)
    BY <1>3 DEF Fires
  <2>3. ~Idle(t) /\ Top(t).pc = "fire" /\ Top(t).pc \notin Plain
    BY <2>2 DEF FreesAt, Plain, FilePc
  <2>4. NoId \notin Top(t).todo
    BY <2>3, TopTarget DEF TargetFits, FreePc
  <2>5. TargetFits(q)' /\ ~IsEventFor(q)
    BY <2>1, <2>4 DEF TargetFits, IsEventFor, DispatchPc, Targeting
  <2>6. e.pc \in DispatchPc \ Targeting /\ e.to # NoId /\ e.pc \notin FreePc
    BY <2>1, <2>4 DEF DispatchPc, Targeting, FreePc
  <2>7. TargetFits(e)'
    BY <2>6, AskFits
  <2>8. FreesOn(t, q)
    BY <2>1, <2>2 DEF FreesOn
  <2>9. e.msg.from = c
    BY <2>1 DEF EventOf
  <2>10. Dead(c)
    BY <1>1, <2>2, FreesClaims, Names DEF FreePc
  <2>11. FiredBy(t, {q}, e)
    BY <2>1, <2>2, <2>9, <2>10 DEF FiredBy
  <2>12. Orderly(t, {q}, {e})
    BY <2>1, <2>5, <2>6, <2>7, <2>8, <2>11 DEF Orderly
  <2> QED
    BY <2>12
<1>4. CASE GivesBack(t, c)
  <2>1. Orderly(t, {}, {})
    BY <1>4 DEF GivesBack, Orderly
  <2> QED
    BY <2>1
<1> QED
  BY <1>2, <1>3, <1>4

LEMMA OrderlyKind ==
  ASSUME Events, Grows, Typed', NEW t \in Threads, Kind(t)
  PROVE  \E a, b : Orderly(t, a, b)
<1>1. ~Mistakes(t)
  BY NoMistakes DEF Events
<1>2. CASE Quiet
  BY <1>2, SameOrderly DEF Quiet
<1>3. CASE GivesUp(t)
  BY <1>3, OrderlyAway
<1>4. CASE Refuses(t)
  BY <1>4, OrderlyDelivery DEF Refuses
<1>5. CASE Sends(t)
  <2>1. PICK q \in Frames : q \in Dispatches
    BY <1>5 DEF Sends
  <2>2. q.msg \in Messages
    BY <2>1 DEF Dispatches
  <2>3. PICK c \in Contexts : c = q.msg.from
    BY <2>2 DEF Messages
  <2> QED
    BY <1>5, OrderlySearch
<1>6. ASSUME NEW c \in Contexts, Takes(c) \/ Begins(c) PROVE \E a, b : Orderly(t, a, b)
  BY <1>6, SameOrderly DEF Takes, Begins
<1>7. ASSUME NEW c \in Contexts, Looks(t, c) \/ Gets(t, c) PROVE \E a, b : Orderly(t, a, b)
  BY <1>7, OrderlySearch
<1>8. ASSUME NEW c \in Contexts, Leaves(t, c) \/ Drops(t, c) PROVE \E a, b : Orderly(t, a, b)
  BY <1>8, OrderlyDrop
<1>9. ASSUME NEW c \in Contexts, Delivers(t, c) PROVE \E a, b : Orderly(t, a, b)
  BY <1>9, OrderlyDelivery DEF Delivers
<1>10. ASSUME NEW c \in Contexts, Scans(t, c) \/ Fires(t, c) \/ GivesBack(t, c)
       PROVE  \E a, b : Orderly(t, a, b)
  BY <1>10, OrderlyFree
<1> QED
  BY <1>1, <1>2, <1>3, <1>4, <1>5, <1>6, <1>7, <1>8, <1>9, <1>10 DEF Kind

\* What a step does to the queues: no message comes but by a delivery.
Shrinks ==
  \A c \in Contexts :
    \/ context'[c].datagramQueue = <<>>
    \/ /\ context'[c].cid = context[c].cid
       /\ \/ context'[c].datagramQueue = context[c].datagramQueue
          \/ /\ context[c].datagramQueue # <<>>
             /\ context'[c].datagramQueue = Tail(context[c].datagramQueue)

LEMMA QueueKind ==
  ASSUME Lives, NEW t \in Threads, Kind(t)
  PROVE  Shrinks \/ \E c \in Contexts : Delivers(t, c)
<1>1. ~Mistakes(t)
  BY NoMistakes
<1>2. Settled => Shrinks
  BY DEF Settled, Unmoved, Shrinks
<1>3. CASE Quiet \/ Sends(t) \/ GivesUp(t) \/ Refuses(t)
  BY <1>2, <1>3 DEF Quiet, Sends, GivesUp, Refuses
<1>4. ASSUME NEW c \in Contexts, Leaves(t, c) \/ Looks(t, c) \/ Scans(t, c) \/ Fires(t, c)
      PROVE  Shrinks
  BY <1>2, <1>4 DEF Leaves, Looks, Scans, Fires
<1>5. ASSUME NEW c \in Contexts, Gets(t, c) \/ Drops(t, c) PROVE Shrinks
  BY <1>5 DEF Gets, Drops, Recounted, Only, Shrinks
<1>6. ASSUME NEW c \in Contexts, Takes(c) \/ Begins(c) \/ GivesBack(t, c) PROVE Shrinks
  BY <1>6 DEF Takes, Begins, GivesBack, Owns, Only, Shrinks
<1> QED
  BY <1>1, <1>3, <1>4, <1>5, <1>6 DEF Kind

LEMMA TailIs ==
  ASSUME NEW S, NEW q \in Seq(S), q # <<>>
  PROVE  /\ Len(q) \in Nat /\ Len(Tail(q)) = Len(q) - 1
         /\ \A n \in 1..Len(Tail(q)) : n + 1 \in 1..Len(q) /\ Tail(q)[n] = q[n + 1]
  OBVIOUS

LEMMA AppendIs ==
  ASSUME NEW S, NEW q \in Seq(S), NEW m \in S
  PROVE  /\ Len(q) \in Nat /\ Len(Append(q, m)) = Len(q) + 1
         /\ \A n \in 1..Len(Append(q, m)) :
              Append(q, m)[n] = IF n = Len(q) + 1 THEN m ELSE q[n]
         /\ \A n \in 1..Len(Append(q, m)) : n # Len(q) + 1 => n \in 1..Len(q)
  OBVIOUS

LEMMA ShrinksKeeps ==
  ASSUME Typed, Shrinks, NEW c \in Contexts
  PROVE  /\ \A d : HasEvent(c, d)' => HasEvent(c, d) /\ context'[c].cid = context[c].cid
         /\ OnceIn(c) => OnceIn(c)'
<1>1. context[c].datagramQueue \in Seq(Messages)
  BY SlotIs
<1>2. CASE context'[c].datagramQueue = <<>>
  BY <1>2 DEF HasEvent, OnceIn
<1>3. CASE /\ context'[c].cid = context[c].cid
           /\ context'[c].datagramQueue = context[c].datagramQueue
  BY <1>3 DEF HasEvent, OnceIn
<1>4. CASE /\ context'[c].cid = context[c].cid /\ context[c].datagramQueue # <<>>
           /\ context'[c].datagramQueue = Tail(context[c].datagramQueue)
  <2>1. PICK q \in Seq(Messages) : q = context[c].datagramQueue
    BY <1>1
  <2>2. /\ Len(q) \in Nat /\ Len(Tail(q)) = Len(q) - 1
        /\ \A n \in 1..Len(Tail(q)) : n + 1 \in 1..Len(q) /\ Tail(q)[n] = q[n + 1]
    BY <1>4, <2>1, TailIs
  <2>3. ASSUME NEW d, HasEvent(c, d)' PROVE HasEvent(c, d)
    <3>1. PICK n \in 1..Len(Tail(q)) : IsEvent(Tail(q)[n]) /\ Tail(q)[n].from = d
      BY <1>4, <2>1, <2>3 DEF HasEvent, IsEvent
    <3>2. n + 1 \in 1..Len(q) /\ IsEvent(q[n + 1]) /\ q[n + 1].from = d
      BY <2>2, <3>1
    <3> QED
      BY <2>1, <3>2 DEF HasEvent
  <2>4. ASSUME OnceIn(c),
               NEW n \in 1..Len(Tail(q)), NEW m \in 1..Len(Tail(q)),
               IsEvent(Tail(q)[n]), IsEvent(Tail(q)[m]), Tail(q)[n].from = Tail(q)[m].from
        PROVE  n = m
    <3>1. /\ n + 1 \in 1..Len(q) /\ Tail(q)[n] = q[n + 1]
          /\ m + 1 \in 1..Len(q) /\ Tail(q)[m] = q[m + 1]
      BY <2>2
    <3>2. IsEvent(q[n + 1]) /\ IsEvent(q[m + 1]) /\ q[n + 1].from = q[m + 1].from
      BY <2>4, <3>1
    <3>3. n + 1 = m + 1
      BY <2>1, <2>4, <3>1, <3>2 DEF OnceIn
    <3> QED
      BY <2>2, <3>3
  <2>5. OnceIn(c) => OnceIn(c)'
    BY <1>4, <2>1, <2>4 DEF OnceIn, IsEvent
  <2> QED
    BY <1>4, <2>3, <2>5
<1> QED
  BY <1>2, <1>3, <1>4 DEF Shrinks

LEMMA DeliversKeeps ==
  ASSUME Typed, NEW t \in Threads, NEW c \in Contexts, Delivers(t, c)
  PROVE  /\ \A d \in Contexts : context'[d].cid = context[d].cid
         /\ \A d \in Contexts : d # c => \A e : HasEvent(d, e)' => HasEvent(d, e)
         /\ \A e : HasEvent(c, e)' =>
              HasEvent(c, e) \/ (IsEvent(Top(t).msg) /\ Top(t).msg.from = e)
         /\ \A d \in Contexts : d # c => (OnceIn(d) => OnceIn(d)')
         /\ (OnceIn(c) /\ (IsEvent(Top(t).msg) => ~HasEvent(c, Top(t).msg.from)))
              => OnceIn(c)'
<1>1. /\ \A d \in Contexts : d # c => context'[d] = context[d]
      /\ context'[c].cid = context[c].cid
      /\ context'[c].datagramQueue = Append(context[c].datagramQueue, Top(t).msg)
      /\ Top(t) \in Dispatches
  BY DEF Delivers, Owns, Only, DispatchAt
<1>2. PICK q \in Seq(Messages) : q = context[c].datagramQueue
  BY SlotIs
<1>3. PICK m \in Messages : m = Top(t).msg
  BY <1>1 DEF Dispatches
<1>4. /\ Len(q) \in Nat /\ Len(Append(q, m)) = Len(q) + 1
      /\ \A n \in 1..Len(Append(q, m)) :
           Append(q, m)[n] = IF n = Len(q) + 1 THEN m ELSE q[n]
      /\ \A n \in 1..Len(Append(q, m)) : n # Len(q) + 1 => n \in 1..Len(q)
  BY AppendIs
<1>5. context'[c].datagramQueue = Append(q, m)
  BY <1>1, <1>2, <1>3
<1>6. \A d \in Contexts : d # c => /\ \A e : HasEvent(d, e)' => HasEvent(d, e)
                                   /\ OnceIn(d) => OnceIn(d)'
  BY <1>1 DEF HasEvent, OnceIn
<1>7. ASSUME NEW e, HasEvent(c, e)' PROVE HasEvent(c, e) \/ (IsEvent(m) /\ m.from = e)
  <2>1. PICK n \in 1..Len(Append(q, m)) : IsEvent(Append(q, m)[n]) /\ Append(q, m)[n].from = e
    BY <1>5, <1>7 DEF HasEvent, IsEvent
  <2>2. CASE n = Len(q) + 1
    BY <1>4, <2>1, <2>2
  <2>3. CASE n # Len(q) + 1
    <3>1. n \in 1..Len(q) /\ Append(q, m)[n] = q[n]
      BY <1>4, <2>3
    <3> QED
      BY <1>2, <2>1, <3>1 DEF HasEvent
  <2> QED
    BY <2>2, <2>3
<1>8. ASSUME OnceIn(c), IsEvent(m) => ~HasEvent(c, m.from),
             NEW n \in 1..Len(Append(q, m)), NEW k \in 1..Len(Append(q, m)),
             IsEvent(Append(q, m)[n]), IsEvent(Append(q, m)[k]),
             Append(q, m)[n].from = Append(q, m)[k].from
      PROVE  n = k
  <2>1. ASSUME NEW l \in 1..Len(Append(q, m)), l # Len(q) + 1,
               IsEvent(m), IsEvent(Append(q, m)[l]), Append(q, m)[l].from = m.from
        PROVE  FALSE
    <3>1. l \in 1..Len(q) /\ Append(q, m)[l] = q[l]
      BY <1>4, <2>1
    <3> QED
      BY <1>2, <1>8, <2>1, <3>1 DEF HasEvent
  <2>2. CASE n # Len(q) + 1 /\ k # Len(q) + 1
    <3>1. /\ n \in 1..Len(q) /\ Append(q, m)[n] = q[n]
          /\ k \in 1..Len(q) /\ Append(q, m)[k] = q[k]
      BY <1>4, <2>2
    <3> QED
      BY <1>2, <1>8, <3>1 DEF OnceIn
  <2>3. CASE n = Len(q) + 1 /\ k # Len(q) + 1
    <3>1. Append(q, m)[n] = m
      BY <1>4, <2>3
    <3> QED
      BY <1>8, <2>1, <2>3, <3>1
  <2>4. CASE k = Len(q) + 1 /\ n # Len(q) + 1
    <3>1. Append(q, m)[k] = m
      BY <1>4, <2>4
    <3> QED
      BY <1>8, <2>1, <2>4, <3>1
  <2> QED
    BY <2>2, <2>3, <2>4
<1>9. (OnceIn(c) /\ (IsEvent(m) => ~HasEvent(c, m.from))) => OnceIn(c)'
  BY <1>5, <1>8 DEF OnceIn, IsEvent
<1>10. \A d \in Contexts : context'[d].cid = context[d].cid
  BY <1>1
<1> QED
  BY <1>3, <1>6, <1>7, <1>9, <1>10

LEMMA TargetsStep ==
  ASSUME Typed, TargetsFit, Grows, NEW t \in Threads, NEW a, NEW b, Orderly(t, a, b)
  PROVE  TargetsFit'
<1>1. ASSUME NEW u \in Threads, NEW n, NEW r, Has(u, n, r)' PROVE TargetFits(r)'
  <2>1. CASE r \in a \cup b
    BY <2>1 DEF Orderly
  <2>2. CASE r \notin a \cup b
    <3>1. Has(u, n, r)
      BY <1>1, <2>2 DEF Orderly, Becomes
    <3>2. r \in Frames /\ TargetFits(r)
      BY <3>1, HasKind DEF TargetsFit
    <3> QED
      BY <3>2, TargetGrows
  <2> QED
    BY <2>1, <2>2
<1> QED
  BY <1>1 DEF TargetsFit

\* The context that an event is about.
LEMMA EventFrom ==
  ASSUME NEW r \in Frames, IsEventFor(r)
  PROVE  r.msg.from \in Contexts /\ r.pc \notin Plain /\ r \in Dispatches
<1>1. r \in Dispatches
  BY Kinds DEF IsEventFor
<1> QED
  BY <1>1, PlainIs DEF IsEventFor, Dispatches, Messages

LEMMA TopEvent ==
  ASSUME Events, NEW t \in Threads, ~Idle(t), IsEventFor(Top(t))
  PROVE  Has(t, Kept(t) + 1, Top(t))
<1>1. Top(t).pc \notin Plain
  BY PlainIs DEF IsEventFor
<1> QED
  BY <1>1, TopTarget

LEMMA FollowStep ==
  ASSUME Events, Grows, NEW t \in Threads, NEW a, NEW b, Orderly(t, a, b)
  PROVE  EventsFollow'
<1>0. Typed /\ Kept(t) \in Nat
  BY Tops DEF Events, Lives, References
<1> PICK k \in Nat : k = Kept(t)
  BY <1>0
<1>1. Typed /\ k \in Nat /\ k = Kept(t) /\ Becomes(t, a, b)
  BY <1>0 DEF Orderly
<1>2. ASSUME NEW u \in Threads, NEW n, NEW r, Has(u, n, r), <<u, n>> # Place(t),
             IsEventFor(r)
      PROVE  Dead(r.msg.from)' /\ Fired(u, n, r)'
  <2>1. PICK q : Has(u, n - 1, q) /\ q.pc = "fire" /\ q.ctx = r.msg.from /\ r.to \notin q.todo
    BY <1>2 DEF Events, EventsFollow, Fired
  <2>2. r \in Frames /\ n \in Nat /\ Dead(r.msg.from)
    BY <1>1, <1>2, HasKind DEF Events, EventsFollow
  <2>3. <<u, n - 1>> # Place(t)
    <3>1. u = t => n \in 1..(k + 1)
      BY <1>1, <1>2, HasTop
    <3>2. u = t => n - 1 # k + 1
      BY <1>1, <2>2, <3>1
    <3> QED
      BY <1>1, <3>2 DEF Place
  <2>4. Has(u, n - 1, q)'
    BY <1>1, <2>1, <2>3 DEF Becomes
  <2>5. Dead(r.msg.from)'
    BY <1>2, <2>2, EventFrom, GrowsUsed
  <2> QED
    BY <2>1, <2>4, <2>5 DEF Fired
<1>3. ASSUME NEW r, Continues(t, r)
      PROVE  Dead(r.msg.from)' /\ Fired(t, k + 1, r)'
  <2>1. Has(t, k + 1, Top(t)) /\ IsEventFor(Top(t))
    BY <1>1, <1>3, TopEvent DEF Continues
  <2>2. PICK q : /\ Has(t, (k + 1) - 1, q) /\ q.pc = "fire"
                 /\ q.ctx = r.msg.from /\ r.to \notin q.todo
    BY <1>3, <2>1 DEF Events, EventsFollow, Fired, Continues
  <2>3. Top(t) \in Frames /\ Dead(r.msg.from)
    BY <1>1, <1>3, <2>1, HasKind DEF Events, EventsFollow, Continues
  <2>4. <<t, (k + 1) - 1>> # Place(t)
    <3>1. (k + 1) - 1 # k + 1
      BY <1>1
    <3> QED
      BY <1>1, <3>1 DEF Place
  <2>5. Has(t, (k + 1) - 1, q)'
    BY <1>1, <2>2, <2>4 DEF Becomes
  <2>6. Dead(r.msg.from)'
    BY <1>3, <2>1, <2>3, EventFrom, GrowsUsed DEF Continues
  <2> QED
    BY <2>2, <2>5, <2>6 DEF Fired
<1>4. ASSUME NEW r, FiredBy(t, a, r)
      PROVE  Dead(r.msg.from)' /\ \A n : n = k + 2 => Fired(t, n, r)'
  <2>1. PICK q \in a : q.pc = "fire" /\ q.ctx = r.msg.from /\ r.to \notin q.todo
    BY <1>4 DEF FiredBy
  <2>2. Has(t, k + 1, q)'
    BY <1>1, <2>1 DEF Becomes, Place
  <2>4. (k + 2) - 1 = k + 1
    BY <1>1
  <2> QED
    BY <1>4, <2>1, <2>2, <2>4, GrowsUsed DEF FiredBy, Fired
<1>5. ASSUME NEW u \in Threads, NEW n, NEW r, Has(u, n, r)', IsEventFor(r)
      PROVE  Dead(r.msg.from)' /\ Fired(u, n, r)'
  <2>1. CASE Has(u, n, r) /\ <<u, n>> # Place(t)
    BY <1>2, <1>5, <2>1
  <2>2. CASE <<u, n>> = Place(t) /\ r \in a
    BY <1>1, <1>3, <1>5, <2>2 DEF Orderly, Place
  <2>3. CASE u = t /\ n = k + 2 /\ r \in b
    BY <1>1, <1>4, <1>5, <2>3 DEF Orderly
  <2> QED
    BY <1>1, <1>5, <2>1, <2>2, <2>3 DEF Becomes
<1> QED
  BY <1>5 DEF EventsFollow, IsEventFor, IsEvent

\* What is under way is no more to be fired, and what is not stays so.
LEMMA UnderWaySpent ==
  ASSUME Events, NEW t \in Threads, NEW n, NEW r, Has(t, n, r), IsEventFor(r)
  PROVE  Dead(r.msg.from) /\ Spent(r.msg.from, r.to)
<1>1. References
  BY DEF Events, Lives
<1>2. r.msg.from \in Contexts
  BY <1>1, HasKind, EventFrom DEF References
<1>3. PICK q : Has(t, n - 1, q) /\ q.pc = "fire" /\ q.ctx = r.msg.from /\ r.to \notin q.todo
  BY DEF Events, EventsFollow, Fired
<1>4. q.pc \in FreePc
  BY <1>3 DEF FreePc
<1>5. ASSUME NEW u \in Threads, NEW m, NEW s, Has(u, m, s), s.pc \in FreePc, s.ctx = r.msg.from
      PROVE  s = q
  BY <1>1, <1>2, <1>3, <1>4, <1>5, OneFreer
<1> QED
  BY <1>3, <1>5 DEF Spent, Events, EventsFollow

LEMMA SpentStays ==
  ASSUME Typed, NEW t \in Threads, NEW a, NEW b, Orderly(t, a, b),
         NEW d \in Contexts, NEW i, Dead(d), Spent(d, i)
  PROVE  Spent(d, i)'
<1>1. ASSUME NEW u \in Threads, NEW m, NEW r, Has(u, m, r)', r.pc \in FreePc, r.ctx = d
      PROVE  r.pc = "fire" /\ i \notin r.todo
  <2>1. CASE Has(u, m, r)
    BY <1>1, <2>1 DEF Spent
  <2>2. CASE r \in a \cup b
    <3>1. FreesOn(t, r)
      BY <1>1, <2>2 DEF Orderly
    <3>2. ASSUME NEW pc \in FreePc, FreesAt(t, pc, d) PROVE pc = "fire" /\ i \notin Top(t).todo
      <4>1. Top(t).pc \notin Plain /\ ~Idle(t) /\ Top(t).pc = pc /\ Top(t).ctx = d
        BY <3>2, PlainIs DEF FreesAt
      <4>2. Has(t, Kept(t) + 1, Top(t))
        BY <4>1, HasTop
      <4> QED
        BY <4>1, <4>2 DEF Spent
    <3>3. ~FreesAt(t, "scan", d)
      BY <3>2 DEF FreePc
    <3>4. FreesAt(t, "fire", d) /\ r.pc = "fire" /\ r.todo \subseteq Top(t).todo
      BY <1>1, <3>1, <3>3 DEF FreesOn
    <3> QED
      BY <3>2, <3>4 DEF FreePc
  <2> QED
    BY <1>1, <2>1, <2>2 DEF Orderly, Becomes
<1> QED
  BY <1>1 DEF Spent

\* What happens to the queues, of which a delivery is the other case.
Queues(t) == Shrinks \/ \E c \in Contexts : Delivers(t, c)

\* A delivery is of what is on top, to the one that was asked for.
LEMMA DeliveryIs ==
  ASSUME Events, NEW t \in Threads, NEW c \in Contexts, Delivers(t, c)
  PROVE  /\ Has(t, Kept(t) + 1, Top(t)) /\ Top(t).pc = "enqueue" /\ ~Idle(t)
         /\ context[c].cid = Top(t).to
         /\ IsEvent(Top(t).msg) => IsEventFor(Top(t))
<1>1. DispatchAt(t, {"enqueue"}) /\ {"enqueue"} \subseteq DispatchPc /\ Top(t).ctx = c
  BY DEF Delivers, DispatchPc
<1>2. ~Idle(t) /\ Top(t).pc = "enqueue" /\ Top(t).pc \in DispatchPc
  BY <1>1 DEF DispatchAt
<1>3. TargetFits(Top(t)) /\ Has(t, Kept(t) + 1, Top(t))
  BY <1>2, TopTarget, PlainIs
<1> QED
  BY <1>1, <1>2, <1>3 DEF TargetFits, Targeting, IsEventFor

\* A queue's event is from before, or is being delivered.
LEMMA EventCame ==
  ASSUME Events, NEW t \in Threads, Queues(t), NEW c \in Contexts, NEW d, HasEvent(c, d)'
  PROVE  /\ context'[c].cid = context[c].cid
         /\ \/ HasEvent(c, d)
            \/ Delivers(t, c) /\ IsEventFor(Top(t)) /\ Top(t).msg.from = d
<1>1. Typed
  BY DEF Events, Lives, References
<1>2. CASE Shrinks
  BY <1>1, <1>2, ShrinksKeeps
<1>3. ASSUME NEW e \in Contexts, Delivers(t, e)
      PROVE  /\ context'[c].cid = context[c].cid
             /\ \/ HasEvent(c, d)
                \/ Delivers(t, c) /\ IsEventFor(Top(t)) /\ Top(t).msg.from = d
  <2>1. CASE c # e
    BY <1>1, <1>3, <2>1, DeliversKeeps
  <2>2. CASE c = e
    BY <1>1, <1>3, <2>2, DeliversKeeps, DeliveryIs
  <2> QED
    BY <2>1, <2>2
<1> QED
  BY <1>2, <1>3 DEF Queues

LEMMA DoneStep ==
  ASSUME Events, Grows, NEW t \in Threads, NEW a, NEW b, Orderly(t, a, b), Queues(t)
  PROVE  DeliveredIsDone'
<1>1. Typed
  BY DEF Events, Lives, References
<1>2. ASSUME NEW c \in Contexts, NEW d \in Contexts, HasEvent(c, d)'
      PROVE  Dead(d)' /\ Spent(d, context[c].cid)'
  <2>1. /\ context'[c].cid = context[c].cid
        /\ \/ HasEvent(c, d)
           \/ Delivers(t, c) /\ IsEventFor(Top(t)) /\ Top(t).msg.from = d
    BY <1>2, EventCame
  <2>2. Dead(d) /\ Spent(d, context[c].cid)
    <3>1. CASE HasEvent(c, d)
      BY <3>1 DEF Events, DeliveredIsDone
    <3>2. CASE Delivers(t, c) /\ IsEventFor(Top(t)) /\ Top(t).msg.from = d
      BY <3>2, DeliveryIs, UnderWaySpent
    <3> QED
      BY <2>1, <3>1, <3>2
  <2>3. PICK i : i = context[c].cid
    OBVIOUS
  <2>4. Spent(d, i)'
    BY <1>1, <2>2, <2>3, SpentStays
  <2>5. Spent(d, context[c].cid)'
    BY <2>1, <2>3, <2>4 DEF Spent
  <2>6. Dead(d)'
    BY <2>2, GrowsUsed
  <2> QED
    BY <2>5, <2>6
<1> QED
  BY <1>2 DEF DeliveredIsDone

\* No delivery is of an event that another record is under way with.
LEMMA DeliveryOfOne ==
  ASSUME Events, NEW t \in Threads, NEW c \in Contexts, Delivers(t, c), IsEventFor(Top(t)),
         NEW u \in Threads, NEW n, NEW r, Has(u, n, r), IsEventFor(r),
         r.msg.from = Top(t).msg.from
  PROVE  <<u, n>> = Place(t)
<1>1. References /\ Typed /\ Kept(t) \in Nat
  BY Tops DEF Events, Lives, References
<1>2. Has(t, Kept(t) + 1, Top(t))
  BY DeliveryIs
<1>3. PICK p : Has(t, (Kept(t) + 1) - 1, p) /\ p.pc = "fire" /\ p.ctx = r.msg.from
  BY <1>2 DEF Events, EventsFollow, Fired
<1>4. PICK q : Has(u, n - 1, q) /\ q.pc = "fire" /\ q.ctx = r.msg.from
  BY DEF Events, EventsFollow, Fired
<1>5. r.msg.from \in Contexts /\ n \in Nat
  BY <1>1, HasKind, EventFrom
<1>6. p.pc \in FreePc /\ q.pc \in FreePc
  BY <1>3, <1>4 DEF FreePc
<1>7. t = u /\ (Kept(t) + 1) - 1 = n - 1
  BY <1>1, <1>3, <1>4, <1>5, <1>6, OneFreer
<1>8. n = Kept(t) + 1
  BY <1>1, <1>5, <1>7
<1> QED
  BY <1>7, <1>8 DEF Place

LEMMA UnderWayStep ==
  ASSUME Events, NEW t \in Threads, NEW a, NEW b, Orderly(t, a, b), Queues(t)
  PROVE  NotYetDelivered'
<1>1. Typed
  BY DEF Events, Lives, References
<1>2. Becomes(t, a, b)
  BY DEF Orderly
<1>3. ASSUME NEW u \in Threads, NEW n, NEW r, Has(u, n, r)', IsEventFor(r), r.pc # "release",
             NEW c \in Contexts, context'[c].cid = r.to, HasEvent(c, r.msg.from)'
      PROVE  FALSE
  <2>1. /\ context[c].cid = r.to
        /\ \/ HasEvent(c, r.msg.from)
           \/ Delivers(t, c) /\ IsEventFor(Top(t)) /\ Top(t).msg.from = r.msg.from
    BY <1>3, EventCame
  <2>2. ASSUME NEW v \in Threads, NEW m, NEW s, Has(v, m, s), IsEventFor(s), s.pc # "release",
               s.to = r.to, s.msg = r.msg
        PROVE  ~HasEvent(c, r.msg.from)
    BY <2>1, <2>2 DEF Events, NotYetDelivered
  <2>3. ASSUME Delivers(t, c)
        PROVE  <<u, n>> # Place(t)
    <3>1. PICK q : MovesOn(t, q, "release") /\ Becomes(t, {q}, {})
      BY <2>3 DEF Delivers
    <3>2. r # q
      BY <1>3, <3>1 DEF MovesOn
    <3> QED
      BY <1>3, <3>1, <3>2 DEF Becomes
  <2>4. CASE Has(u, n, r) /\ <<u, n>> # Place(t)
    <3>1. ~HasEvent(c, r.msg.from)
      BY <1>3, <2>2, <2>4
    <3>2. Delivers(t, c) /\ IsEventFor(Top(t)) /\ Top(t).msg.from = r.msg.from
      BY <2>1, <3>1
    <3> QED
      BY <1>3, <2>4, <3>2, DeliveryOfOne
  <2>5. CASE <<u, n>> = Place(t) /\ r \in a
    <3>1. Continues(t, r)
      BY <1>3, <2>5 DEF Orderly
    <3>2. /\ Has(t, Kept(t) + 1, Top(t)) /\ IsEventFor(Top(t)) /\ Top(t).pc # "release"
          /\ Top(t).to = r.to /\ Top(t).msg = r.msg
      BY <1>3, <3>1, TopEvent DEF Continues
    <3>3. ~HasEvent(c, r.msg.from)
      BY <2>2, <3>2
    <3> QED
      BY <2>1, <2>3, <2>5, <3>3
  <2>6. CASE r \in b
    <3>1. FiredBy(t, a, r)
      BY <1>3, <2>6 DEF Orderly
    <3>2. /\ r.msg.from \in Contexts /\ r.to \in Top(t).todo /\ ~Idle(t)
          /\ Top(t).pc = "fire" /\ Top(t).ctx = r.msg.from
      BY <3>1 DEF FiredBy, FreesAt
    <3>3. Top(t).pc \notin Plain /\ Top(t).pc \in FreePc /\ Top(t).pc \notin DispatchPc
      BY <3>2, PlainIs DEF FreePc, DispatchPc
    <3>4. Has(t, Kept(t) + 1, Top(t))
      BY <1>1, <3>2, <3>3, HasTop
    <3>5. ~IsEventFor(Top(t))
      BY <3>3 DEF IsEventFor
    <3>6. HasEvent(c, r.msg.from)
      BY <2>1, <3>5
    <3>7. Spent(r.msg.from, r.to)
      BY <2>1, <3>2, <3>6 DEF Events, DeliveredIsDone
    <3> QED
      BY <3>2, <3>3, <3>4, <3>7 DEF Spent
  <2> QED
    BY <1>2, <1>3, <2>4, <2>5, <2>6 DEF Becomes
<1> QED
  BY <1>3 DEF NotYetDelivered, IsEventFor, IsEvent

LEMMA OnceStep ==
  ASSUME Events, NEW t \in Threads, Queues(t)
  PROVE  Once'
<1>1. Typed /\ \A c \in Contexts : OnceIn(c)
  BY DEF Events, Lives, References, Once
<1>2. CASE Shrinks
  BY <1>1, <1>2, ShrinksKeeps DEF Once
<1>3. ASSUME NEW c \in Contexts, Delivers(t, c) PROVE \A d \in Contexts : OnceIn(d)'
  <2>1. IsEvent(Top(t).msg) => ~HasEvent(c, Top(t).msg.from)
    BY <1>3, DeliveryIs DEF Events, NotYetDelivered
  <2>2. OnceIn(c)'
    BY <1>1, <1>3, <2>1, DeliversKeeps
  <2>3. ASSUME NEW d \in Contexts, d # c PROVE OnceIn(d)'
    BY <1>1, <1>3, <2>3, DeliversKeeps
  <2> QED
    BY <2>2, <2>3
<1> QED
  BY <1>2, <1>3 DEF Queues, Once

LEMMA EventsKind ==
  ASSUME Events, Typed', ~ReuseMemory, NEW t \in Threads, Kind(t)
  PROVE  Grows /\ Events'
<1>1. Lives /\ Typed
  BY DEF Events, Lives, References
<1>2. Follows
  BY <1>1, LivesKind
<1>3. Grows /\ Lives'
  BY <1>2 DEF Follows
<1>4. PICK a, b : Orderly(t, a, b)
  BY <1>3, OrderlyKind
<1>5. Queues(t)
  BY <1>1, QueueKind DEF Queues
<1>6. TargetsFit' /\ EventsFollow'
  BY <1>1, <1>3, <1>4, TargetsStep, FollowStep DEF Events
<1>7. DeliveredIsDone' /\ NotYetDelivered' /\ Once'
  BY <1>3, <1>4, <1>5, DoneStep, UnderWayStep, OnceStep
<1> QED
  BY <1>3, <1>6, <1>7 DEF Events

EventsHold == Prompt /\ Events

LEMMA EventsInit ==
  ASSUME Init, Typed
  PROVE  Events
<1>1. References
  BY ReferencesInit
<1>2. /\ \A c \in Contexts : /\ context[c].cid = NoId /\ context[c].datagramQueue = <<>>
                             /\ ~context[c].allocated
      /\ \A t \in Threads : stack[t] = <<>>
  BY DEF Init, Fresh
<1>3. \A t \in Threads : \A n, r : ~Has(t, n, r)
  BY <1>2 DEF Has
<1>4. Untouched /\ RecordsFit
  BY <1>2 DEF Untouched, RecordsFit
<1>5. TargetsFit /\ EventsFollow /\ NotYetDelivered
  BY <1>3 DEF TargetsFit, EventsFollow, NotYetDelivered
<1>6. DeliveredIsDone /\ Once
  BY <1>2 DEF DeliveredIsDone, HasEvent, Once, OnceIn
<1> QED
  BY <1>1, <1>4, <1>5, <1>6 DEF Events, Lives

LEMMA EventsNext ==
  ASSUME ~ReuseMemory, EventsHold, [Next]_vars
  PROVE  EventsHold' /\ Grows
<1>1. Prompt /\ Prompt' /\ Typed /\ Typed' /\ Events
  BY PromptNext DEF EventsHold, Prompt
<1>2. CASE Next
  <2>1. PICK t \in Threads : Kind(t)
    BY <1>1, <1>2, StepKind
  <2> QED
    BY <1>1, <2>1, EventsKind DEF EventsHold
<1>3. CASE UNCHANGED vars
  <2>1. Quiet
    BY <1>3, QuietRecords, CountSettles DEF vars, Quiet
  <2>2. ASSUME NEW t \in Threads PROVE Events' /\ Grows
    BY <1>1, <2>1, EventsKind DEF Kind
  <2>3. CASE Threads = {}
    <3>1. Lives /\ References /\ Untouched /\ RecordsFit
      BY <1>1 DEF Events, Lives
    <3>2. Grows /\ Untouched'
      BY <2>1, <3>1, SettledGrows DEF Quiet
    <3>3. References'
      BY <1>1, <2>1, <3>1, SettledEven, QuietReferences DEF Quiet
    <3>4. Lives'
      BY <2>3, <3>2, <3>3 DEF Lives, RecordsFit
    <3>5. \A c \in Contexts : (OnceIn(c) => OnceIn(c)') /\ \A d : HasEvent(c, d)' => HasEvent(c, d)
      BY <1>3 DEF vars, OnceIn, HasEvent
    <3>6. Once' /\ DeliveredIsDone'
      BY <1>1, <2>3, <3>2, <3>5, GrowsUsed DEF Events, Once, DeliveredIsDone, Spent
    <3>7. TargetsFit' /\ EventsFollow' /\ NotYetDelivered'
      BY <2>3 DEF TargetsFit, EventsFollow, NotYetDelivered
    <3> QED
      BY <1>1, <3>2, <3>4, <3>6, <3>7 DEF EventsHold, Events
  <2> QED
    BY <1>1, <2>2, <2>3 DEF EventsHold
<1> QED
  BY <1>2, <1>3

LEMMA EventsAlways == ~ReuseMemory => (Spec => []EventsHold)
<1> SUFFICES ASSUME ~ReuseMemory PROVE Spec => []EventsHold
  OBVIOUS
<1>1. Init => EventsHold
  BY PromptInit, EventsInit DEF EventsHold, Prompt
<1>2. EventsHold /\ [Next]_vars => EventsHold'
  BY EventsNext
<1> QED
  BY <1>1, <1>2, PTL DEF Spec

\* Where the allocator does not hand out freed memory again, the count of each
\* context is what the list and the calls hold of it, for good.
THEOREM CountsAreExact == ~ReuseMemory => (Spec => []RefCountIsHolders)
<1> SUFFICES ASSUME ~ReuseMemory PROVE Spec => []RefCountIsHolders
  OBVIOUS
<1>1. EventsHold => RefCountIsHolders
  BY ReferencesShow DEF EventsHold, Events, Lives
<1> QED
  BY <1>1, EventsAlways, PTL

\* There, a context that is told of the removal of another finds it off the list,
\* and is told once, in whatever order threads release, free and fire.
THEOREM RemovalsAreToldOnce == ~ReuseMemory => (Spec => []RemovalsAreTrue)
<1> SUFFICES ASSUME ~ReuseMemory PROVE Spec => []RemovalsAreTrue
  OBVIOUS
<1>1. EventsHold => RemovalsAreTrue
  <2> SUFFICES ASSUME EventsHold, NEW c \in Contexts, NEW n \in DOMAIN context[c].datagramQueue,
                      IsEvent(context[c].datagramQueue[n])
               PROVE  /\ context[c].datagramQueue[n].from \notin Range(contextList)
                      /\ \A k \in DOMAIN context[c].datagramQueue :
                           context[c].datagramQueue[k] = context[c].datagramQueue[n] => k = n
    BY DEF RemovalsAreTrue
  <2>1. Events /\ Lives /\ Typed
    BY DEF EventsHold, Events, Lives, References
  <2>2. PICK q \in Seq(Messages) : q = context[c].datagramQueue
    BY <2>1, SlotIs
  <2>3. n \in 1..Len(q) /\ q[n].from \in Contexts /\ HasEvent(c, q[n].from)
    <3>1. n \in 1..Len(q) /\ q[n] \in Messages
      BY <2>2
    <3> QED
      BY <2>2, <3>1 DEF Messages, HasEvent
  <2>4. Dead(q[n].from)
    BY <2>1, <2>3 DEF Events, DeliveredIsDone
  <2>5. ~Listed(q[n].from)
    BY <2>1, <2>3, <2>4, Names
  <2>6. ASSUME NEW k \in DOMAIN q, q[k] = q[n] PROVE k = n
    BY <2>1, <2>2, <2>3, <2>6 DEF Events, Once, OnceIn
  <2> QED
    BY <2>2, <2>5, <2>6 DEF Listed
<1> QED
  BY <1>1, EventsAlways, PTL

\* Where the allocator does not hand out freed memory again, the comparison that
\* follows a missed search never takes the context it looks at for the wanted one:
\* VMCIContext_Get hands out nothing that it has not referenced.
THEOREM GetIsReferenced == ~ReuseMemory => (Spec => []Sound)
<1> SUFFICES ASSUME ~ReuseMemory PROVE Spec => []Sound
  OBVIOUS
<1>1. Init => Sound
  BY DEF Init, Sound
<1>2. EventsHold /\ Sound /\ [Next]_vars => Sound'
  <2> SUFFICES ASSUME EventsHold, Sound, [Next]_vars PROVE Sound'
    OBVIOUS
  <2>1. Lives /\ Typed
    BY DEF EventsHold, Events, Lives, References
  <2>2. ASSUME NEW t \in Threads, CheckMissed(t) \/ GetMissed(t) PROVE Sound'
    <3>1. /\ Top(t).ctx \in Contexts /\ Top(t) \in Dispatches /\ ~Idle(t)
          /\ Top(t).pc \in Missing
      BY <2>1, <2>2, Where DEF CheckMissed, GetMissed, Missing, DispatchPc
    <3>2. context[Top(t).ctx].cid # Top(t).to
      BY <2>1, <3>1, TopFits DEF Lives, RecordFits
    <3> QED
      BY <2>2, <3>2 DEF CheckMissed, GetMissed, Compare, Sound
  <2>3. ASSUME NEW t \in Threads, NEW c \in Contexts, Call(t, c) PROVE Sound'
    BY <2>3 DEF Sound, Call, InitContext, Send, AddNotification, RemoveNotification, Close,
       Dequeue, Poll, SetupNotify
  <2>4. ASSUME NEW t \in Threads,
               \/ InitNotify(t) \/ InitDone(t) \/ InitFaults(t) \/ Put(t)
               \/ PollCheck(t) \/ MapBoolPtr(t) \/ CheckPending(t) \/ SignalNotify(t)
               \/ PollInterrupted(t)
        PROVE  Sound'
    BY <2>4 DEF Sound, InitNotify, InitDone, InitFaults, Put, PollCheck, MapBoolPtr,
       CheckPending, SignalNotify, PollInterrupted
  <2>5. ASSUME NEW t \in Threads,
               \/ Check(t) \/ Checked(t) \/ Get(t) \/ Enqueue(t) \/ Refuse(t)
               \/ ReleaseTarget(t) \/ Scan(t) \/ Fire(t) \/ FreeContext(t)
        PROVE  Sound'
    BY <2>5 DEF Sound, Check, Checked, Get, Enqueue, Refuse, ReleaseTarget, Scan, Fire,
       FreeContext
  <2>6. CASE UNCHANGED vars
    BY <2>6 DEF vars, Sound
  <2> QED
    BY <2>2, <2>3, <2>4, <2>5, <2>6 DEF Next, Continue
<1> QED
  BY <1>1, <1>2, EventsAlways, PTL DEF Spec

-----------------------------------------------------------------------------
(* The privileges, where moreover no id is given out a second time *)

IdsDiffer ==
  \A c, d \in Contexts : Used(c) /\ context[c].cid = context[d].cid => c = d

\* Whom an id stands for, and that the one may interact with somebody of privilege p.
Called(i, d) == Used(d) /\ context[d].cid = i
Allowed(i, p) ==
  \E d \in Contexts : Called(i, d) /\ ~DenyInteraction(p, context[d].priv)

\* Past the look at the privileges a dispatch is allowed, or is to its sender.
Looked == {"get", "get_missed", "enqueue"}
PermitFits(r) ==
  /\ r.pc \in Looked /\ ~IsEvent(r.msg) =>
       Called(r.to, r.msg.from) \/ Allowed(r.to, r.msg.priv)
  /\ IsEventFor(r) => Used(r.msg.from) /\ Allowed(r.to, context[r.msg.from].priv)
  /\ r.pc = "fire" => Used(r.ctx) /\ \A i \in r.todo : Allowed(i, context[r.ctx].priv)
PermitsFit == \A t \in Threads : \A n, r : Has(t, n, r) => PermitFits(r)

MessageFits(c, m) ==
  /\ ~IsEvent(m) => m.from = c \/ ~DenyInteraction(m.priv, context[c].priv)
  /\ IsEvent(m) => ~DenyInteraction(context[m.from].priv, context[c].priv)
MessagesFit ==
  \A c \in Contexts : \A n \in 1..Len(context[c].datagramQueue) :
    MessageFits(c, context[c].datagramQueue[n])

Permits == Events /\ IdsDiffer /\ PermitsFit /\ MessagesFit

LEMMA AllowedStays ==
  ASSUME Grows, NEW i
  PROVE  /\ \A d \in Contexts : Called(i, d) => Called(i, d)'
         /\ \A p : Allowed(i, p) => Allowed(i, p)'
<1>1. ASSUME NEW d \in Contexts, Called(i, d)
      PROVE  Called(i, d)' /\ context'[d].priv = context[d].priv
  BY <1>1, GrowsUsed DEF Called, Grows
<1>2. ASSUME NEW p, Allowed(i, p) PROVE Allowed(i, p)'
  <2>1. PICK d \in Contexts : Called(i, d) /\ ~DenyInteraction(p, context[d].priv)
    BY <1>2 DEF Allowed
  <2>2. Called(i, d)' /\ ~DenyInteraction(p, context'[d].priv)
    BY <1>1, <2>1
  <2> QED
    BY <2>2 DEF Allowed, DenyInteraction
<1> QED
  BY <1>1, <1>2

LEMMA PermitGrows ==
  ASSUME Grows, NEW r \in Frames, PermitFits(r)
  PROVE  PermitFits(r)'
<1>1. /\ r.pc \in DispatchPc => r \in Dispatches
      /\ r.pc = "fire" => r.ctx \in Contexts
  <2>1. r.pc \in FreePc => r \in Frees
    BY Kinds
  <2> QED
    BY <2>1, Kinds DEF Frees, FreePc
<1>2. r.pc \in DispatchPc => r.msg.from \in Contexts
  BY <1>1 DEF Dispatches, Messages
<1>3. Looked \subseteq DispatchPc
  BY DEF Looked, DispatchPc
<1>4. ASSUME r.pc \in Looked, ~IsEvent(r.msg)
      PROVE  Called(r.to, r.msg.from)' \/ Allowed(r.to, r.msg.priv)'
  <2>1. Called(r.to, r.msg.from) \/ Allowed(r.to, r.msg.priv)
    BY <1>4 DEF PermitFits
  <2> QED
    BY <1>2, <1>3, <1>4, <2>1, AllowedStays
<1>5. ASSUME IsEventFor(r)
      PROVE  Used(r.msg.from)' /\ Allowed(r.to, context[r.msg.from].priv)'
  <2>1. PICK p : p = context[r.msg.from].priv
    OBVIOUS
  <2>2. Used(r.msg.from) /\ Allowed(r.to, p) /\ r.msg.from \in Contexts
    BY <1>2, <1>5, <2>1 DEF PermitFits, IsEventFor
  <2>3. Used(r.msg.from)' /\ context'[r.msg.from].priv = p
    BY <2>1, <2>2, GrowsUsed DEF Grows
  <2>4. Allowed(r.to, p)'
    BY <2>2, AllowedStays
  <2> QED
    BY <2>3, <2>4 DEF Allowed, Called, DenyInteraction
<1>6. ASSUME r.pc = "fire"
      PROVE  Used(r.ctx)' /\ \A i \in r.todo : Allowed(i, context[r.ctx].priv)'
  <2>1. PICK p : p = context[r.ctx].priv
    OBVIOUS
  <2>2. Used(r.ctx) /\ (\A i \in r.todo : Allowed(i, p)) /\ r.ctx \in Contexts
    BY <1>1, <1>6, <2>1 DEF PermitFits
  <2>3. Used(r.ctx)' /\ context'[r.ctx].priv = p
    BY <2>1, <2>2, GrowsUsed DEF Grows
  <2>4. \A i \in r.todo : Allowed(i, p)'
    BY <2>2, AllowedStays
  <2> QED
    BY <2>3, <2>4 DEF Allowed, Called, DenyInteraction
<1> QED
  BY <1>4, <1>5, <1>6 DEF PermitFits, IsEventFor, IsEvent

LEMMA PermitsStep ==
  ASSUME Typed, PermitsFit, Grows, NEW t \in Threads, NEW a, NEW b, Becomes(t, a, b),
         \A r \in a \cup b : r \in Frames /\ PermitFits(r)
  PROVE  PermitsFit'
<1>1. ASSUME NEW u \in Threads, NEW n, NEW r, Has(u, n, r)' PROVE PermitFits(r)'
  <2>1. r \in a \cup b \/ Has(u, n, r)
    BY <1>1 DEF Becomes
  <2>2. r \in Frames /\ PermitFits(r)
    BY <2>1, HasKind DEF PermitsFit
  <2> QED
    BY <2>2, PermitGrows
<1> QED
  BY <1>1 DEF PermitsFit

LEMMA PermitsSame ==
  ASSUME Typed, PermitsFit, Grows, SameRecords
  PROVE  PermitsFit'
<1>1. ASSUME NEW u \in Threads, NEW n, NEW r, Has(u, n, r)' PROVE PermitFits(r)'
  <2>1. Has(u, n, r)
    BY <1>1 DEF SameRecords
  <2>2. r \in Frames /\ PermitFits(r)
    BY <2>1, HasKind DEF PermitsFit
  <2> QED
    BY <2>2, PermitGrows
<1> QED
  BY <1>1 DEF PermitsFit

LEMMA TopPermit ==
  ASSUME Typed, PermitsFit, NEW t \in Threads, ~Idle(t), Top(t).pc \notin Plain
  PROVE  PermitFits(Top(t))
  BY HasTop DEF PermitsFit

\* A dispatch that goes on is allowed what it was, and what it has found to be.
LEMMA MovesPermit ==
  ASSUME Typed, PermitsFit, NEW t \in Threads, NEW S, DispatchAt(t, S), S \subseteq DispatchPc,
         NEW q, NEW pc \in DispatchPc, MovesOn(t, q, pc),
         pc \in Looked =>
           \/ Top(t).pc \in Looked \/ IsEvent(Top(t).msg)
           \/ Allowed(Top(t).to, Top(t).msg.priv)
  PROVE  q \in Frames /\ PermitFits(q)
<1>1. ~Idle(t) /\ Top(t).pc \in DispatchPc
  BY DEF DispatchAt
<1>2. PermitFits(Top(t))
  BY <1>1, TopPermit, PlainIs
<1>3. /\ q \in Frames /\ q.pc = pc /\ q.to = Top(t).to /\ q.msg = Top(t).msg
      /\ q.pc # "fire"
  BY DEF MovesOn, DispatchPc
<1>4. IsEventFor(q) => IsEventFor(Top(t))
  BY <1>1, <1>3 DEF IsEventFor
<1> QED
  BY <1>2, <1>3, <1>4 DEF PermitFits

LEMMA EasyPermit ==
  ASSUME NEW r, r.pc \notin DispatchPc, r.pc # "fire"
  PROVE  PermitFits(r)
  BY DEF PermitFits, IsEventFor, Looked, DispatchPc

LEMMA PermitsSearch ==
  ASSUME Typed, PermitsFit, Grows, NEW t \in Threads, NEW c \in Contexts,
         Sends(t) \/ GivesUp(t) \/ Looks(t, c) \/ Gets(t, c)
  PROVE  PermitsFit'
<1>1. CASE Sends(t)
  <2>1. PICK q \in Frames : /\ q \in Dispatches /\ q.pc \in {"get", "check"}
                            /\ ~IsEvent(q.msg) /\ q.to \in Ids
                            /\ q.pc = "get" => context[q.msg.from].cid = q.to
                            /\ Becomes(t, {q}, {})
    BY <1>1 DEF Sends
  <2>2. q.pc = "get" => Called(q.to, q.msg.from)
    BY <2>1, IdAssumption DEF Called, Used
  <2>3. PermitFits(q)
    BY <2>1, <2>2 DEF PermitFits, IsEventFor, Looked
  <2> QED
    BY <2>1, <2>3, PermitsStep
<1>2. CASE GivesUp(t)
  <2> DEFINE S == {"check", "check_missed", "get", "get_missed"}
  <2>1. DispatchAt(t, S) /\ S \subseteq DispatchPc /\ "get" \in DispatchPc
    BY <1>2 DEF GivesUp, DispatchPc
  <2> HIDE DEF S
  <2>2. CASE Becomes(t, {}, {})
    BY <2>2, PermitsStep
  <2>3. ASSUME NEW q, ~DenyInteraction(Top(t).msg.priv, "restricted"), MovesOn(t, q, "get"),
               Becomes(t, {q}, {})
        PROVE  PermitsFit'
    <3>1. IsEvent(Top(t).msg)
      BY <2>3 DEF DenyInteraction, IsEvent, Event
    <3>2. q \in Frames /\ PermitFits(q)
      BY <2>1, <2>3, <3>1, MovesPermit
    <3> QED
      BY <2>3, <3>2, PermitsStep
  <2> QED
    BY <1>2, <2>2, <2>3 DEF GivesUp
<1>3. CASE Looks(t, c) \/ Gets(t, c)
  <2>1. PICK q : /\ Becomes(t, {q}, {})
                 /\ \/ /\ DispatchAt(t, {"check"})
                       /\ MovesOn(t, q, "check_missed") \/ MovesOn(t, q, "checked")
                    \/ /\ DispatchAt(t, {"get"})
                       /\ MovesOn(t, q, "get_missed") \/ MovesOn(t, q, "enqueue")
    BY <1>3 DEF Looks, Gets
  <2>2. PICK pc \in {"check_missed", "checked", "get_missed", "enqueue"} :
          MovesOn(t, q, pc) /\ (pc \in Looked => DispatchAt(t, {"get"}))
    BY <2>1 DEF Looked
  <2>3. DispatchAt(t, {"check", "get"}) /\ {"check", "get"} \subseteq DispatchPc
    BY <2>1 DEF DispatchAt, DispatchPc
  <2>4. pc \in DispatchPc /\ (pc \in Looked => Top(t).pc \in Looked)
    BY <2>2 DEF DispatchAt, DispatchPc, Looked
  <2>5. q \in Frames /\ PermitFits(q)
    BY <2>2, <2>3, <2>4, MovesPermit
  <2> QED
    BY <2>1, <2>5, PermitsStep
<1> QED
  BY <1>1, <1>2, <1>3

LEMMA PermitsDrop ==
  ASSUME Events, PermitsFit, Grows, NEW t \in Threads, NEW c \in Contexts,
         Leaves(t, c) \/ Drops(t, c) \/ Refuses(t) \/ Delivers(t, c)
  PROVE  PermitsFit'
<1>1. Typed
  BY DEF Events, Lives, References
<1>2. CASE Leaves(t, c)
  <2>1. PICK r : r = On(c, "put")
    OBVIOUS
  <2>2. r \in Frames /\ r.pc = "put"
    BY <2>1, OnIs DEF OnPc
  <2>3. PermitFits(r)
    BY <2>2, EasyPermit DEF DispatchPc
  <2> QED
    BY <1>1, <1>2, <2>1, <2>2, <2>3, PermitsStep DEF Leaves
<1>3. CASE Refuses(t) \/ Delivers(t, c)
  <2>1. PICK q : MovesOn(t, q, "release") /\ Becomes(t, {q}, {})
    BY <1>3 DEF Refuses, Delivers
  <2>2. /\ DispatchAt(t, {"enqueue"}) /\ {"enqueue"} \subseteq DispatchPc
        /\ "release" \in DispatchPc /\ "release" \notin Looked
    BY <1>3 DEF Refuses, Delivers, DispatchPc, Looked
  <2>3. q \in Frames /\ PermitFits(q)
    BY <1>1, <2>1, <2>2, MovesPermit
  <2> QED
    BY <1>1, <2>1, <2>3, PermitsStep
<1>4. CASE Drops(t, c)
  <2>1. PICK a, b : DropsTo(t, c, a, b)
    BY <1>4, DropsAre
  <2>2. ASSUME NEW r, Asked(t, c, r) PROVE r \in Frames /\ PermitFits(r)
    <3>1. /\ DispatchAt(t, {"checked"}) /\ MovesOn(t, r, "get")
          /\ ~DenyInteraction(Top(t).msg.priv, context[c].priv)
          /\ {"checked"} \subseteq DispatchPc /\ "get" \in DispatchPc
      BY <2>2 DEF Asked, DispatchPc
    <3>2. TargetFits(Top(t)) /\ Top(t).pc = "checked"
      BY <3>1, MovesTo DEF DispatchAt
    <3>3. Top(t).ctx = c
      BY <1>4 DEF Drops
    <3>4. Called(Top(t).to, c)
      BY <3>2, <3>3 DEF TargetFits, Targeting, Called
    <3>5. Allowed(Top(t).to, Top(t).msg.priv)
      BY <3>1, <3>4 DEF Allowed
    <3> QED
      BY <1>1, <3>1, <3>5, MovesPermit
  <2>3. PICK f : f = Freeing(c)
    OBVIOUS
  <2>4. f \in Frames /\ f.pc = "scan"
    BY <2>3, FreeingIs
  <2>5. PermitFits(f)
    BY <2>4, EasyPermit DEF DispatchPc
  <2>6. \A r \in a \cup b : r = f \/ Asked(t, c, r)
    BY <2>1, <2>3 DEF DropsTo
  <2>7. \A r \in a \cup b : r \in Frames /\ PermitFits(r)
    BY <2>2, <2>4, <2>5, <2>6
  <2> QED
    BY <1>1, <2>1, <2>7, PermitsStep DEF DropsTo
<1> QED
  BY <1>2, <1>3, <1>4

LEMMA PermitsFree ==
  ASSUME Events, PermitsFit, Grows, NEW t \in Threads, NEW c \in Contexts,
         Scans(t, c) \/ Fires(t, c) \/ GivesBack(t, c)
  PROVE  PermitsFit'
<1>1. Typed /\ References /\ Lives
  BY DEF Events, Lives, References
<1>2. CASE Scans(t, c)
  <2>1. PICK q \in Frames : /\ q.pc = "fire" /\ q.ctx = c /\ Becomes(t, {q}, {})
                            /\ q.todo = {context[d].cid : d \in Subscribers(c)}
    BY <1>2 DEF Scans
  <2>2. Used(c)
    BY <1>1, <1>2, FreesClaims, Names DEF Scans, FreePc, Dead
  <2>3. ASSUME NEW d \in Subscribers(c) PROVE Allowed(context[d].cid, context[c].priv)
    <3>1. d \in Contexts /\ Listed(d) /\ ~DenyInteraction(context[c].priv, context[d].priv)
      BY <1>1 DEF Subscribers, Listed, Typed, Range
    <3>2. Called(context[d].cid, d)
      BY <1>1, <3>1, Names DEF Called
    <3> QED
      BY <3>1, <3>2 DEF Allowed
  <2>4. PermitFits(q)
    BY <2>1, <2>2, <2>3 DEF PermitFits, IsEventFor, Looked, DispatchPc
  <2> QED
    BY <1>1, <2>1, <2>4, PermitsStep
<1>3. CASE Fires(t, c)
  <2>1. PICK i \in Top(t).todo, q \in Frames, e \in Frames :
          /\ q.pc = "fire" /\ q.ctx = c /\ q.todo = Top(t).todo \ {i}
          /\ e.pc = "check" /\ e.to = i /\ e.msg = EventOf(c)
          /\ Becomes(t, {q}, {e})
    BY <1>3 DEF Fires
  <2>2. ~Idle(t) /\ Top(t).pc = "fire" /\ Top(t).ctx = c
    BY <1>3 DEF Fires, FreesAt
  <2>3. PermitFits(Top(t))
    BY <1>1, <2>2, TopPermit DEF Plain, FilePc
  <2>4. Used(c) /\ \A j \in Top(t).todo : Allowed(j, context[c].priv)
    BY <2>2, <2>3 DEF PermitFits
  <2>5. PermitFits(q)
    BY <2>1, <2>4 DEF PermitFits, IsEventFor, Looked, DispatchPc
  <2>6. e.msg.from = c
    BY <2>1 DEF EventOf
  <2>7. PermitFits(e)
    BY <2>1, <2>4, <2>6 DEF PermitFits, Looked
  <2> QED
    BY <1>1, <2>1, <2>5, <2>7, PermitsStep
<1>4. CASE GivesBack(t, c)
  BY <1>1, <1>4, PermitsStep DEF GivesBack
<1> QED
  BY <1>2, <1>3, <1>4

LEMMA PermitsKind ==
  ASSUME Events, PermitsFit, Grows, NEW t \in Threads, Kind(t)
  PROVE  PermitsFit'
<1>1. ~Mistakes(t) /\ Typed
  BY NoMistakes DEF Events, Lives, References
<1>2. CASE Quiet
  BY <1>1, <1>2, PermitsSame DEF Quiet
<1>3. CASE Sends(t) \/ GivesUp(t)
  <2>1. PICK c \in Contexts : TRUE
    <3>1. \E r \in Dispatches : TRUE
      BY <1>3 DEF Sends, GivesUp, DispatchAt
    <3> QED
      BY <3>1 DEF Dispatches, Messages
  <2> QED
    BY <1>1, <1>3, PermitsSearch
<1>4. CASE Refuses(t)
  <2>1. PICK c \in Contexts : TRUE
    <3>1. \E r \in Dispatches : TRUE
      BY <1>4 DEF Refuses, DispatchAt
    <3> QED
      BY <3>1 DEF Dispatches, Messages
  <2> QED
    BY <1>4, PermitsDrop
<1>5. ASSUME NEW c \in Contexts, Takes(c) \/ Begins(c) PROVE PermitsFit'
  BY <1>1, <1>5, PermitsSame DEF Takes, Begins
<1>6. ASSUME NEW c \in Contexts, Looks(t, c) \/ Gets(t, c) PROVE PermitsFit'
  BY <1>1, <1>6, PermitsSearch
<1>7. ASSUME NEW c \in Contexts, Leaves(t, c) \/ Drops(t, c) \/ Delivers(t, c) PROVE PermitsFit'
  BY <1>7, PermitsDrop
<1>8. ASSUME NEW c \in Contexts, Scans(t, c) \/ Fires(t, c) \/ GivesBack(t, c)
      PROVE  PermitsFit'
  BY <1>8, PermitsFree
<1> QED
  BY <1>1, <1>2, <1>3, <1>4, <1>5, <1>6, <1>7, <1>8 DEF Kind

LEMMA IdsKind ==
  ASSUME Lives, IdsDiffer, ~ReuseMemory, ~ReuseIds, NEW t \in Threads, Kind(t)
  PROVE  IdsDiffer'
<1>1. ~Mistakes(t)
  BY NoMistakes
<1> DEFINE SameIds == \A d \in Contexts : context'[d].cid = context[d].cid
<1>2. SameIds => IdsDiffer'
  BY DEF IdsDiffer, Used
<1>3. Settled => SameIds
  BY DEF Settled, Unmoved
<1>4. ASSUME NEW c \in Contexts, Only(c), context'[c].cid = context[c].cid PROVE SameIds
  BY <1>4 DEF Only
<1> HIDE DEF SameIds
<1>5. CASE Quiet \/ Sends(t) \/ GivesUp(t) \/ Refuses(t)
  BY <1>2, <1>3, <1>5 DEF Quiet, Sends, GivesUp, Refuses
<1>6. ASSUME NEW c \in Contexts, Leaves(t, c) \/ Looks(t, c) \/ Scans(t, c) \/ Fires(t, c)
      PROVE  IdsDiffer'
  BY <1>2, <1>3, <1>6 DEF Leaves, Looks, Scans, Fires
<1>7. ASSUME NEW c \in Contexts,
             Gets(t, c) \/ Drops(t, c) \/ Takes(c) \/ Delivers(t, c) \/ GivesBack(t, c)
      PROVE  IdsDiffer'
  BY <1>2, <1>4, <1>7 DEF Gets, Drops, Takes, Delivers, GivesBack, Recounted, Owns
<1>8. ASSUME NEW c \in Contexts, Begins(c) PROVE IdsDiffer'
  BY <1>8 DEF Begins, Only, IdsDiffer, Used
<1> QED
  BY <1>1, <1>5, <1>6, <1>7, <1>8 DEF Kind

\* A message that is queued already goes on fitting where it is.
LEMMA MessageGrows ==
  ASSUME Grows, NEW c \in Contexts, NEW m \in Messages, MessageFits(c, m),
         Used(c), IsEvent(m) => Dead(m.from)
  PROVE  MessageFits(c, m)'
<1>1. m.from \in Contexts /\ context'[c].priv = context[c].priv
  BY DEF Grows, Messages
<1>2. IsEvent(m) => context'[m.from].priv = context[m.from].priv
  BY <1>1 DEF Grows, Dead
<1> QED
  BY <1>1, <1>2 DEF MessageFits, IsEvent

LEMMA OldMessage ==
  ASSUME Events, MessagesFit, Grows, NEW c \in Contexts,
         NEW q \in Seq(Messages), q = context[c].datagramQueue, NEW n \in 1..Len(q)
  PROVE  q[n] \in Messages /\ MessageFits(c, q[n])'
<1>1. Lives
  BY DEF Events
<1>2. PICK m \in Messages : m = q[n]
  OBVIOUS
<1>3. q # <<>>
  OBVIOUS
<1>4. Used(c)
  BY <1>1, <1>3, Names
<1>5. m.from \in Contexts
  BY DEF Messages
<1>6. IsEvent(m) => Dead(m.from)
  BY <1>2, <1>5 DEF HasEvent, Events, DeliveredIsDone
<1>7. MessageFits(c, m)
  BY <1>2 DEF MessagesFit
<1>8. MessageFits(c, m)'
  BY <1>4, <1>6, <1>7, MessageGrows
<1> QED
  BY <1>2, <1>8

\* What is delivered is allowed where it arrives.
LEMMA DeliveredFits ==
  ASSUME Events, IdsDiffer, PermitsFit, Grows, NEW t \in Threads, NEW c \in Contexts,
         Delivers(t, c)
  PROVE  MessageFits(c, Top(t).msg)
<1>1. Typed
  BY DEF Events, Lives, References
<1>2. /\ Top(t).pc = "enqueue" /\ ~Idle(t) /\ context[c].cid = Top(t).to
      /\ IsEvent(Top(t).msg) => IsEventFor(Top(t))
  BY DeliveryIs
<1>3. Top(t).pc \notin Plain /\ Top(t).pc \in Looked
  BY <1>2 DEF Plain, FilePc, Looked
<1>4. PermitFits(Top(t))
  BY <1>1, <1>2, <1>3, TopPermit
<1>5. Top(t) \in Dispatches
  BY DEF Delivers, DispatchAt
<1>6. Top(t).msg.from \in Contexts
  BY <1>5 DEF Dispatches, Messages
<1>7. \A d \in Contexts : Called(Top(t).to, d) => d = c
  BY <1>2 DEF Called, IdsDiffer
<1>8. \A p : Allowed(Top(t).to, p) => ~DenyInteraction(p, context[c].priv)
  BY <1>7 DEF Allowed
<1> QED
  BY <1>2, <1>3, <1>4, <1>6, <1>7, <1>8 DEF PermitFits, MessageFits

LEMMA MessagesStep ==
  ASSUME Permits, Grows, NEW t \in Threads, Queues(t)
  PROVE  MessagesFit'
<1>1. Events /\ IdsDiffer /\ PermitsFit /\ MessagesFit /\ Typed
  BY DEF Permits, Events, Lives, References
<1>2. ASSUME NEW c \in Contexts,
             \/ context'[c].datagramQueue = <<>>
             \/ context'[c].datagramQueue = context[c].datagramQueue
             \/ /\ context[c].datagramQueue # <<>>
                /\ context'[c].datagramQueue = Tail(context[c].datagramQueue)
      PROVE  \A n \in 1..Len(context'[c].datagramQueue) :
               MessageFits(c, context[c].datagramQueue[n])'
  <2>1. PICK q \in Seq(Messages) : q = context[c].datagramQueue
    BY <1>1, SlotIs
  <2>2. \A n \in 1..Len(q) : MessageFits(c, q[n])'
    BY <1>1, <2>1, OldMessage
  <2>3. CASE context'[c].datagramQueue = <<>>
    BY <2>3
  <2>4. CASE context'[c].datagramQueue = q
    BY <2>2, <2>4 DEF MessageFits
  <2>5. CASE q # <<>> /\ context'[c].datagramQueue = Tail(q)
    <3>1. \A n \in 1..Len(Tail(q)) : n + 1 \in 1..Len(q) /\ Tail(q)[n] = q[n + 1]
      BY <2>5, TailIs
    <3>2. \A n \in 1..Len(Tail(q)) : MessageFits(c, Tail(q)[n])'
      BY <2>2, <3>1 DEF MessageFits
    <3> QED
      BY <2>5, <3>2 DEF MessageFits
  <2> QED
    BY <1>2, <2>1, <2>3, <2>4, <2>5
<1>3. CASE Shrinks
  BY <1>2, <1>3 DEF Shrinks, MessagesFit
<1>4. ASSUME NEW c \in Contexts, Delivers(t, c) PROVE MessagesFit'
  <2>1. \A d \in Contexts : d # c => context'[d] = context[d]
    BY <1>4 DEF Delivers, Owns, Only
  <2>2. PICK q \in Seq(Messages) : q = context[c].datagramQueue
    BY <1>1, SlotIs
  <2>3. PICK m \in Messages : m = Top(t).msg
    BY <1>4 DEF Delivers, DispatchAt, Dispatches
  <2>4. context'[c].datagramQueue = Append(q, m)
    BY <1>4, <2>2, <2>3 DEF Delivers
  <2>5. MessageFits(c, m) /\ (IsEvent(m) => IsEventFor(Top(t)))
    BY <1>1, <1>4, <2>3, DeliveredFits, DeliveryIs
  <2>6. Used(c) /\ (IsEvent(m) => Dead(m.from))
    <3>1. References /\ Lives
      BY <1>1 DEF Events, Lives
    <3>2. TopClaims(t, c, HoldPc)
      BY <1>4 DEF Delivers, DispatchAt, TopClaims, Claims, HoldPc
    <3>3. Held(c)
      BY <3>1, <3>2, TopNumbers
    <3>4. Used(c)
      BY <3>1, <3>3, Names
    <3>5. IsEvent(m) => Dead(m.from)
      BY <1>1, <1>4, <2>3, <2>5, DeliveryIs, UnderWaySpent
    <3> QED
      BY <3>4, <3>5
  <2>7. MessageFits(c, m)'
    BY <2>5, <2>6, MessageGrows
  <2>8. \A n \in 1..Len(q) : MessageFits(c, q[n])'
    BY <1>1, <2>2, OldMessage
  <2>9. /\ \A n \in 1..Len(Append(q, m)) :
             Append(q, m)[n] = IF n = Len(q) + 1 THEN m ELSE q[n]
        /\ \A n \in 1..Len(Append(q, m)) : n # Len(q) + 1 => n \in 1..Len(q)
    BY AppendIs
  <2>10. \A n \in 1..Len(Append(q, m)) : MessageFits(c, Append(q, m)[n])'
    BY <2>7, <2>8, <2>9 DEF MessageFits
  <2>11. \A n \in 1..Len(context'[c].datagramQueue) :
           MessageFits(c, context[c].datagramQueue[n])'
    BY <2>4, <2>10 DEF MessageFits
  <2>12. ASSUME NEW d \in Contexts, d # c
         PROVE  \A n \in 1..Len(context'[d].datagramQueue) :
                  MessageFits(d, context[d].datagramQueue[n])'
    BY <1>2, <2>1, <2>12
  <2> QED
    BY <2>11, <2>12 DEF MessagesFit
<1> QED
  BY <1>3, <1>4 DEF Queues

PermitsHold == Prompt /\ Permits

LEMMA MessageAt ==
  ASSUME Permits, NEW c \in Contexts, NEW m \in Range(context[c].datagramQueue)
  PROVE  MessageFits(c, m)
<1>1. Typed /\ MessagesFit
  BY DEF Permits, Events, Lives, References
<1>2. PICK q \in Seq(Messages) : q = context[c].datagramQueue
  BY <1>1, SlotIs
<1>3. PICK n \in DOMAIN q : m = q[n]
  BY <1>2 DEF Range
<1>4. n \in 1..Len(q)
  BY <1>2, <1>3
<1> QED
  BY <1>1, <1>2, <1>3, <1>4 DEF MessagesFit

LEMMA PermitsInit ==
  ASSUME Init, Typed
  PROVE  Permits
<1>1. Events
  BY EventsInit
<1>2. /\ \A c \in Contexts : context[c].cid = NoId /\ context[c].datagramQueue = <<>>
      /\ \A t \in Threads : stack[t] = <<>>
  BY DEF Init, Fresh
<1>3. \A t \in Threads : \A n, r : ~Has(t, n, r)
  BY <1>2 DEF Has
<1>4. IdsDiffer /\ MessagesFit
  BY <1>2 DEF IdsDiffer, Used, MessagesFit
<1> QED
  BY <1>1, <1>3, <1>4 DEF Permits, PermitsFit

LEMMA PermitsNext ==
  ASSUME ~ReuseMemory, ~ReuseIds, PermitsHold, [Next]_vars
  PROVE  PermitsHold'
<1>1. EventsHold /\ Permits
  BY DEF PermitsHold, EventsHold, Permits
<1>2. EventsHold' /\ Grows
  BY <1>1, EventsNext
<1>3. Typed /\ Typed' /\ Events /\ Events' /\ Prompt' /\ Lives
  BY <1>1, <1>2 DEF EventsHold, Prompt, Events
<1>4. CASE Next
  <2>1. PICK t \in Threads : Kind(t)
    BY <1>3, <1>4, StepKind
  <2>2. Queues(t)
    BY <1>3, <2>1, QueueKind DEF Queues
  <2>3. IdsDiffer' /\ PermitsFit' /\ MessagesFit'
    BY <1>1, <1>2, <1>3, <2>1, <2>2, IdsKind, PermitsKind, MessagesStep DEF Permits
  <2> QED
    BY <1>3, <2>3 DEF PermitsHold, Permits
<1>5. CASE UNCHANGED vars
  <2>1. IdsDiffer' /\ MessagesFit'
    BY <1>1, <1>5 DEF vars, Permits, IdsDiffer, Used, MessagesFit, MessageFits, IsEvent
  <2>2. PermitsFit'
    BY <1>1, <1>2, <1>3, <1>5, QuietRecords, PermitsSame DEF vars, Permits
  <2> QED
    BY <1>3, <2>1, <2>2 DEF PermitsHold, Permits
<1> QED
  BY <1>4, <1>5

LEMMA PermitsAlways == ~ReuseMemory /\ ~ReuseIds => (Spec => []PermitsHold)
<1> SUFFICES ASSUME ~ReuseMemory, ~ReuseIds PROVE Spec => []PermitsHold
  OBVIOUS
<1>1. Init => PermitsHold
  BY PromptInit, PermitsInit DEF PermitsHold, Prompt
<1>2. PermitsHold /\ [Next]_vars => PermitsHold'
  BY PermitsNext
<1> QED
  BY <1>1, <1>2, PTL DEF Spec

\* Where the VMX is given no id of a dead context either, the privileges that a
\* dispatch has looked up are those of the context it queues the datagram in,
\* although it drops the context between the two.
THEOREM DatagramsArePermitted ==
  ~ReuseMemory /\ ~ReuseIds => (Spec => []DatagramsRespectPrivileges)
<1> SUFFICES ASSUME ~ReuseMemory, ~ReuseIds PROVE Spec => []DatagramsRespectPrivileges
  OBVIOUS
<1>1. PermitsHold => DatagramsRespectPrivileges
  <2> SUFFICES ASSUME PermitsHold, NEW c \in Contexts, NEW m \in Range(context[c].datagramQueue),
                      ~IsEvent(m), m.from # c
               PROVE  ~DenyInteraction(m.priv, context[c].priv)
    BY DEF DatagramsRespectPrivileges
  <2> QED
    BY MessageAt DEF PermitsHold, Permits, MessageFits
<1> QED
  BY <1>1, PermitsAlways, PTL

\* There, the news of a removal is queued only where the two contexts may interact,
\* although the subscribers are collected before the events are sent.
THEOREM EventsArePermitted ==
  ~ReuseMemory /\ ~ReuseIds => (Spec => []EventsRespectPrivileges)
<1> SUFFICES ASSUME ~ReuseMemory, ~ReuseIds PROVE Spec => []EventsRespectPrivileges
  OBVIOUS
<1>1. PermitsHold => EventsRespectPrivileges
  <2> SUFFICES ASSUME PermitsHold, NEW c \in Contexts, NEW m \in Range(context[c].datagramQueue),
                      IsEvent(m)
               PROVE  ~DenyInteraction(context[m.from].priv, context[c].priv)
    BY DEF EventsRespectPrivileges
  <2> QED
    BY MessageAt DEF PermitsHold, Permits, MessageFits
<1> QED
  BY <1>1, PermitsAlways, PTL
=============================================================================
