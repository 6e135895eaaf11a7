------------------------------ MODULE EventFeed ------------------------------
(***************************************************************************)
(* What the events of vmnet promise to those who listen                    *)
(* (vnetEvent.c: VNetEvent_Send "Sends an event to all listeners           *)
(* registered with a sender", VNetEvent_CreateListener "re-sends all       *)
(* existing events"): whoever subscribes is told the latest event of every *)
(* sender there is, at once and once each, and from then on every event,   *)
(* in the order they were sent.                                            *)
(***************************************************************************)
EXTENDS SequencesExt

CONSTANTS
  Source, Listener,
  None              \* the number of no event

VARIABLES
  latest,           \* [Source -> Nat \cup {None}]: the number of its latest event
  wants,            \* [Listener -> BOOLEAN]: subscribed, and to this class of events
  feed              \* [Listener -> Seq(Source \X Nat)]: what each is still to read

vars == <<latest, wants, feed>>

Init ==
  /\ latest = [s \in Source |-> None]
  /\ wants = [l \in Listener |-> FALSE]
  /\ feed = [l \in Listener |-> <<>>]

Kept == {<<s, latest[s]>> : s \in {t \in Source : latest[t] # None}}

Subscribe(l) ==
  /\ ~wants[l]
  /\ wants' = [wants EXCEPT ![l] = TRUE]
  /\ \E q \in SetToSeqs(Kept) : feed' = [feed EXCEPT ![l] = q]
  /\ UNCHANGED latest

Publish(s) ==
  /\ latest' = [latest EXCEPT ![s] = @ + 1]
  /\ feed' = [l \in Listener |-> IF wants[l] THEN Append(feed[l], <<s, latest[s] + 1>>)
                                 ELSE feed[l]]
  /\ UNCHANGED wants

Read(l) ==
  /\ feed[l] # <<>>
  /\ feed' = [feed EXCEPT ![l] = Tail(@)]
  /\ UNCHANGED <<latest, wants>>

\* The events of a sender that has gone are not told any more, nor taken back.
Withdraw(s) ==
  /\ latest' = [latest EXCEPT ![s] = None]
  /\ UNCHANGED <<wants, feed>>

Unsubscribe(l) ==
  /\ wants[l]
  /\ wants' = [wants EXCEPT ![l] = FALSE]
  /\ feed' = [feed EXCEPT ![l] = <<>>]
  /\ UNCHANGED latest

Next ==
  \/ \E s \in Source : Publish(s) \/ Withdraw(s)
  \/ \E l \in Listener : Subscribe(l) \/ Read(l) \/ Unsubscribe(l)

Spec == Init /\ [][Next]_vars
=============================================================================
