------------------------------ MODULE VNetEvent ------------------------------
(***************************************************************************)
(* Events of vmnet: the mechanism of a hub (vnetEvent.c), its senders (the *)
(* bridges), and its listeners with the queues from which user processes   *)
(* read (vnetUserListener.c).                                              *)
(*                                                                         *)
(* The hub, every sender and every listener hold a reference to the        *)
(* mechanism; the hub can go first, when a port moves to another hub.      *)
(* Handlers are called with the lock of the mechanism held and put events  *)
(* into queues that readers empty meanwhile.  No handler calls back, so    *)
(* that the test of handlerTask, which only refuses that, is left out.     *)
(* Names say Event where a module about vmnet would have two of them.      *)
(***************************************************************************)
EXTENDS Naturals, Sequences, FiniteSets

CONSTANTS
  Senders, Listeners, Readers,
  ReadFrom,         \* the listeners that somebody reads from
  Hub,              \* the hub that made the mechanism
  Nobody,           \* no actor
  MaxSends,         \* events the senders have stored at most, a bound for TLC
  HandlerMayFail    \* may the handler find no memory?

Actors == Senders \cup Listeners \cup {Hub}

ASSUME EventAssumption ==
         /\ IsFiniteSet(Actors) /\ Nobody \notin Actors
         /\ Senders \cap Listeners = {} /\ Hub \notin Senders \cup Listeners
         /\ ReadFrom \subseteq Listeners /\ MaxSends \in Nat /\ HandlerMayFail \in BOOLEAN

VARIABLES
  lock,             \* who has the mechanism's lock, and is the handlerTask
  refCount,         \* of the mechanism
  freed,            \* the mechanism's memory is freed
  firstSender,      \* Seq(Senders): the list
  firstListener,    \* Seq(Listeners): the list
  event,            \* [Senders -> 0..MaxSends]: number of the last event, 0 for none
  classMask,        \* [Listeners -> BOOLEAN]: includes the class of the events
  pc,               \* [Actors -> Pc]
  calls,            \* <<listener, sender, number>>: handler calls the lock's owner is to make
  wakes,            \* the listener whose readers a handler is about to wake
  userQueue,        \* [Listeners -> Seq(Senders \X Nat)]: firstEvent ... lastEvent
  reader            \* [Readers -> [at : Listeners \cup {Nobody}, pc : ReaderPc]]

eventVars == <<lock, refCount, freed, firstSender, firstListener, event, classMask, pc,
          calls, wakes, userQueue, reader>>

mechanismVars == <<refCount, freed, firstSender, firstListener, event, classMask, pc>>
handlerVars == <<calls, wakes>>

-----------------------------------------------------------------------------
\* "calling": in the loop over handlers; "unlinked": off its list; "last":
\* about to free the mechanism; "dropped": about to free itself.
Pc == {"absent", "member", "calling", "unlinked", "last", "dropped", "gone"}
ReaderPc == {"idle", "look", "wait", "asleep"}

EventInit ==
  /\ lock = Nobody
  /\ refCount = 1
  /\ freed = FALSE
  /\ firstSender = <<>>
  /\ firstListener = <<>>
  /\ event = [s \in Senders |-> 0]
  /\ classMask = [l \in Listeners |-> FALSE]
  /\ pc = [a \in Actors |-> IF a = Hub THEN "member" ELSE "absent"]
  /\ calls = <<>>
  /\ wakes = Nobody
  /\ userQueue = [l \in Listeners |-> <<>>]
  /\ reader = [r \in Readers |-> [at |-> Nobody, pc |-> "idle"]]

Is(a, p) == pc[a] = p
Becomes(a, p) == pc' = [pc EXCEPT ![a] = p]
Without(list, a) == SelectSeq(list, LAMBDA b : b # a)

-----------------------------------------------------------------------------
(* Senders *)

\* The caller has a jack of the hub.
CreateSender(s) ==
  /\ Is(s, "absent") /\ Is(Hub, "member")
  /\ lock = Nobody
  /\ refCount' = refCount + 1
  /\ firstSender' = <<s>> \o firstSender
  /\ Becomes(s, "member")
  /\ UNCHANGED <<lock, freed, firstListener, event, classMask, calls, wakes, userQueue,
                 reader>>

\* The calls a new event of sender s leads to, in the order of the list.
Tell(s, n) ==
  LET told == SelectSeq(firstListener, LAMBDA l : classMask[l])
  IN  [i \in DOMAIN told |-> <<told[i], s, n>>]

Stored == Cardinality({x \in Senders \X (1..MaxSends) : x[2] <= event[x[1]]})

\* Mutant: an event like the last one is not stored again.
SendOnlyFirst(s) ==
  /\ Is(s, "member")
  /\ lock = Nobody
  /\ Stored < MaxSends
  /\ lock' = s
  /\ event' = [event EXCEPT ![s] = @ + 1]
  /\ calls' = IF event[s] = 0 THEN Tell(s, event[s] + 1) ELSE <<>>
  /\ Becomes(s, "calling")
  /\ UNCHANGED <<refCount, freed, firstSender, firstListener, classMask, wakes, userQueue,
                 reader>>

\* The event takes the place of the one of its type, of which there is one.
Send(s) ==
  /\ Is(s, "member")
  /\ lock = Nobody
  /\ Stored < MaxSends
  /\ lock' = s
  /\ event' = [event EXCEPT ![s] = @ + 1]
  /\ calls' = Tell(s, event[s] + 1)
  /\ Becomes(s, "calling")
  /\ UNCHANGED <<refCount, freed, firstSender, firstListener, classMask, wakes, userQueue,
                 reader>>

\* DestroySender up to the release of the lock.
UnlinkSender(s) ==
  /\ Is(s, "member")
  /\ lock = Nobody
  /\ firstSender' = Without(firstSender, s)
  /\ Becomes(s, "unlinked")
  /\ UNCHANGED <<lock, refCount, freed, firstListener, event, classMask, calls, wakes,
                 userQueue, reader>>

-----------------------------------------------------------------------------
(* Listeners *)

\* The last events of all senders, in the order of the list.
Replay(l) ==
  LET kept == SelectSeq(firstSender, LAMBDA s : event[s] # 0)
  IN  [i \in DOMAIN kept |-> <<l, kept[i], event[kept[i]]>>]

\* Mutant: the listener is not counted.
CreateListenerUncounted(l) ==
  /\ Is(l, "absent") /\ Is(Hub, "member")
  /\ lock = Nobody
  /\ lock' = l
  /\ firstListener' = <<l>> \o firstListener
  /\ \E mask \in BOOLEAN :
       /\ classMask' = [classMask EXCEPT ![l] = mask]
       /\ calls' = IF mask THEN Replay(l) ELSE <<>>
  /\ Becomes(l, "calling")
  /\ UNCHANGED <<refCount, freed, firstSender, event, wakes, userQueue, reader>>

\* The caller has a jack of the hub; mask is its choice.
CreateListener(l) ==
  /\ Is(l, "absent") /\ Is(Hub, "member")
  /\ lock = Nobody
  /\ lock' = l
  /\ refCount' = refCount + 1
  /\ firstListener' = <<l>> \o firstListener
  /\ \E mask \in BOOLEAN :
       /\ classMask' = [classMask EXCEPT ![l] = mask]
       /\ calls' = IF mask THEN Replay(l) ELSE <<>>
  /\ Becomes(l, "calling")
  /\ UNCHANGED <<freed, firstSender, event, wakes, userQueue, reader>>

\* VNetUserListenerFree, when the last reader has left the file, and
\* DestroyListener up to the release of the lock.
UnlinkListener(l) ==
  /\ Is(l, "member")
  /\ \A r \in Readers : reader[r].at # l
  /\ lock = Nobody
  /\ firstListener' = Without(firstListener, l)
  /\ Becomes(l, "unlinked")
  /\ UNCHANGED <<lock, refCount, freed, firstSender, event, classMask, calls, wakes,
                 userQueue, reader>>

-----------------------------------------------------------------------------
(* The loop over the handlers *)

\* VNetUserListenerEventHandler up to the up() of the listener's semaphore.
HandlerAppends(a) ==
  /\ lock = a
  /\ wakes = Nobody
  /\ calls # <<>>
  /\ LET l == Head(calls)[1]
         e == <<Head(calls)[2], Head(calls)[3]>>
     IN  \E memory \in {TRUE, ~HandlerMayFail} :
           /\ userQueue' = IF memory THEN [userQueue EXCEPT ![l] = Append(@, e)] ELSE userQueue
           /\ wakes' = IF memory THEN l ELSE Nobody
  /\ calls' = Tail(calls)
  /\ UNCHANGED <<lock, mechanismVars, reader>>

\* Mutant: the one who sleeps is not woken.
HandlerWakesNobody(a) ==
  /\ lock = a
  /\ wakes # Nobody
  /\ wakes' = Nobody
  /\ UNCHANGED <<lock, mechanismVars, calls, userQueue, reader>>

\* wake_up_interruptible.
HandlerWakes(a) ==
  /\ lock = a
  /\ wakes # Nobody
  /\ reader' = [r \in Readers |->
                  IF reader[r] = [at |-> wakes, pc |-> "asleep"]
                  THEN [reader[r] EXCEPT !.pc = "look"] ELSE reader[r]]
  /\ wakes' = Nobody
  /\ UNCHANGED <<lock, mechanismVars, calls, userQueue>>

CallsDone(a) ==
  /\ lock = a
  /\ calls = <<>> /\ wakes = Nobody
  /\ lock' = Nobody
  /\ Becomes(a, "member")
  /\ UNCHANGED <<refCount, freed, firstSender, firstListener, event, classMask, calls,
                 wakes, userQueue, reader>>

-----------------------------------------------------------------------------
(* References *)

\* DestroyMechanism under the lock: from the destruction of a sender or a
\* listener, and from VNetHubFree when nobody has a jack of the hub, or makes
\* a sender or a listener through one.
DestroyMechanism(a) ==
  /\ \/ Is(a, "unlinked")
     \/ a = Hub /\ Is(a, "member") /\ \A l \in Listeners : ~Is(l, "calling") \/ lock # l
  /\ lock = Nobody
  /\ refCount' = refCount - 1
  /\ Becomes(a, IF refCount = 1 THEN "last" ELSE "dropped")
  /\ UNCHANGED <<lock, freed, firstSender, firstListener, event, classMask, calls, wakes,
                 userQueue, reader>>

FreeMechanism(a) ==
  /\ Is(a, "last")
  /\ freed' = TRUE
  /\ Becomes(a, "dropped")
  /\ UNCHANGED <<lock, refCount, firstSender, firstListener, event, classMask, calls, wakes,
                 userQueue, reader>>

\* The rest of DestroySender or DestroyListener, and the queue of a listener.
FreeActor(a) ==
  /\ Is(a, "dropped")
  /\ Becomes(a, "gone")
  /\ event' = [s \in Senders |-> IF s = a THEN 0 ELSE event[s]]
  /\ userQueue' = [l \in Listeners |-> IF l = a THEN <<>> ELSE userQueue[l]]
  /\ UNCHANGED <<lock, refCount, freed, firstSender, firstListener, classMask, calls, wakes,
                 reader>>

-----------------------------------------------------------------------------
(* Readers: VNetUserListenerRead *)

Read(r, l) ==
  /\ l \in ReadFrom
  /\ reader[r].pc = "idle"
  /\ Is(l, "member")
  /\ reader' = [reader EXCEPT ![r] = [at |-> l, pc |-> "look"]]
  /\ UNCHANGED <<lock, mechanismVars, handlerVars, userQueue>>

ReturnFrom(r) == reader' = [reader EXCEPT ![r] = [at |-> Nobody, pc |-> "idle"]]

Dequeue(r) ==
  LET l == reader[r].at
  IN  /\ reader[r].pc = "look"
      /\ userQueue[l] # <<>>
      /\ userQueue' = [userQueue EXCEPT ![l] = Tail(@)]
      /\ ReturnFrom(r)
      /\ UNCHANGED <<lock, mechanismVars, handlerVars>>

\* Nothing to read: -EAGAIN with O_NONBLOCK, else the reader goes to wait.
FindNothing(r) ==
  /\ reader[r].pc = "look"
  /\ userQueue[reader[r].at] = <<>>
  /\ \/ ReturnFrom(r)
     \/ reader' = [reader EXCEPT ![r].pc = "wait"]
  /\ UNCHANGED <<lock, mechanismVars, handlerVars, userQueue>>

\* wait_event_interruptible: on the wait queue first, the look after.
Wait(r) ==
  /\ reader[r].pc = "wait"
  /\ reader' = [reader EXCEPT ![r].pc = IF userQueue[reader[r].at] = <<>> THEN "asleep"
                                        ELSE "look"]
  /\ UNCHANGED <<lock, mechanismVars, handlerVars, userQueue>>

Interrupted(r) ==
  /\ reader[r].pc = "asleep"
  /\ ReturnFrom(r)
  /\ UNCHANGED <<lock, mechanismVars, handlerVars, userQueue>>

-----------------------------------------------------------------------------
\* A kernel thread in the middle of a call.
Continue(a) ==
  \/ HandlerAppends(a) \/ HandlerWakes(a) \/ CallsDone(a)
  \/ FreeMechanism(a) \/ FreeActor(a)
  \/ Is(a, "unlinked") /\ DestroyMechanism(a)
ReaderContinues(r) == Dequeue(r) \/ FindNothing(r) \/ Wait(r)

EventNext ==
  \/ \E s \in Senders : CreateSender(s) \/ Send(s) \/ UnlinkSender(s)
  \/ \E l \in Listeners : CreateListener(l) \/ UnlinkListener(l)
  \/ DestroyMechanism(Hub)
  \/ \E a \in Actors : Continue(a)
  \/ \E r \in Readers :
       ReaderContinues(r) \/ Interrupted(r) \/ \E l \in Listeners : Read(r, l)

\* Threads in the kernel are scheduled; nobody has to call anything.
EventFairness ==
  /\ \A a \in Actors : WF_eventVars(Continue(a))
  /\ \A r \in Readers : WF_eventVars(ReaderContinues(r))

EventSpec == EventInit /\ [][EventNext]_eventVars
EventFairSpec == EventSpec /\ EventFairness

-----------------------------------------------------------------------------
(* Properties *)

\* Type invariant.
EventTypeOK ==
  /\ lock \in Actors \cup {Nobody}
  /\ refCount \in Nat
  /\ freed \in BOOLEAN
  /\ firstSender \in Seq(Senders)
  /\ firstListener \in Seq(Listeners)
  /\ event \in [Senders -> 0..MaxSends]
  /\ classMask \in [Listeners -> BOOLEAN]
  /\ pc \in [Actors -> Pc]
  /\ calls \in Seq(Listeners \X Senders \X (1..MaxSends))
  /\ wakes \in Listeners \cup {Nobody}
  /\ userQueue \in [Listeners -> Seq(Senders \X (1..MaxSends))]
  /\ reader \in [Readers -> [at : Listeners \cup {Nobody}, pc : ReaderPc]]

\* Those who still use the mechanism.
Users == {a \in Actors : pc[a] \in {"member", "calling", "unlinked"}}
Freers == {a \in Actors : Is(a, "last")}

\* The mechanism is freed once, by the one who dropped the last reference, in
\* whatever order the hub, the bridges and the listeners of user processes go:
\* nobody uses it when, or after, somebody frees it.
MechanismOutlivesUsers ==
  /\ refCount = Cardinality(Users)
  /\ Freers # {} => Users = {} /\ Cardinality(Freers) = 1 /\ ~freed
  /\ freed => Users = {}

\* What the listeners are told and read is what EventFeed promises: handler
\* calls that the owner of the lock is still to make count as made.
Pending(l) == LET mine == SelectSeq(calls, LAMBDA c : c[1] = l)
              IN  [i \in DOMAIN mine |-> <<mine[i][2], mine[i][3]>>]
InList(list, a) == \E i \in DOMAIN list : list[i] = a

Feed == INSTANCE EventFeed WITH
  Source <- Senders, Listener <- Listeners, None <- 0,
  latest <- [s \in Senders |-> IF InList(firstSender, s) THEN event[s] ELSE 0],
  wants <- [l \in Listeners |-> InList(firstListener, l) /\ classMask[l]],
  feed <- [l \in Listeners |-> IF InList(firstListener, l) THEN userQueue[l] \o Pending(l)
                               ELSE <<>>]

ImplementsFeed == Feed!Spec

\* A process that reads while there is an event returns, or another reader of
\* that listener has taken the event.
ReadersReturn ==
  \A r \in Readers :
    reader[r].pc # "idle" /\ userQueue[reader[r].at] # <<>>
      ~> reader[r].pc = "idle" \/ userQueue[reader[r].at] = <<>>
=============================================================================
