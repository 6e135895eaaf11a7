-------------------------- MODULE QueuePairPairing --------------------------
(***************************************************************************)
(* What the queue pair broker promises, without entries, ids, reference    *)
(* counts or pages: a handle names a rendezvous.  One party opens it, at   *)
(* most one other joins, and once somebody joined (or tried and was        *)
(* undone) nobody else ever joins that rendezvous.  It ends when the last  *)
(* party leaves, and only then can the handle be opened again.             *)
(***************************************************************************)
EXTENDS FiniteSets

CONSTANTS Party, Name

VARIABLES
  phase,    \* [Name -> {"absent", "open", "closed"}]
  parties   \* [Name -> SUBSET Party]

Init == /\ phase = [n \in Name |-> "absent"]
        /\ parties = [n \in Name |-> {}]

Open(n, p) ==
  /\ phase[n] = "absent"
  /\ phase' = [phase EXCEPT ![n] = "open"]
  /\ parties' = [parties EXCEPT ![n] = {p}]

Join(n, p) ==
  /\ phase[n] = "open"
  /\ p \notin parties[n]
  /\ phase' = [phase EXCEPT ![n] = "closed"]
  /\ parties' = [parties EXCEPT ![n] = @ \cup {p}]

\* Somebody joined and left at once; the rendezvous is used up all the same.
JoinUndone(n) ==
  /\ phase[n] = "open"
  /\ phase' = [phase EXCEPT ![n] = "closed"]
  /\ UNCHANGED parties

Leave(n, p) ==
  /\ p \in parties[n]
  /\ parties' = [parties EXCEPT ![n] = @ \ {p}]
  /\ phase' = [phase EXCEPT ![n] = IF parties[n] = {p} THEN "absent" ELSE @]

Next ==
  \E n \in Name :
    \/ \E p \in Party : Open(n, p) \/ Join(n, p) \/ Leave(n, p)
    \/ JoinUndone(n)

Spec == Init /\ [][Next]_<<phase, parties>>
=============================================================================
