--------------------------- MODULE VNetSwitchboard ---------------------------
(***************************************************************************)
(* What vmnet promises to those who open /dev/vmnet<n>: the ports that are *)
(* on one network, and they alone, receive what one of them sends, and no  *)
(* network interface is on a network twice, which would make a loop.       *)
(***************************************************************************)
CONSTANTS Port, Network, NoNetwork, NoInterface

VARIABLES
  where,            \* [Port -> Network \cup {NoNetwork}]
  interface,        \* [Port -> the interface behind it, or NoInterface]
  receivers         \* [Port -> SUBSET Port]: who gets what the port sends

vars == <<where, interface, receivers>>

Init ==
  /\ where = [p \in Port |-> NoNetwork]
  /\ interface = [p \in Port |-> NoInterface]
  /\ receivers = [p \in Port |-> {}]

\* Everybody on the network but the sender.
Reach(w) == [p \in Port |-> IF w[p] = NoNetwork THEN {}
                            ELSE {q \in Port : w[q] = w[p]} \ {p}]
NoLoop(w, i) ==
  \A p, q \in Port : p # q /\ w[p] = w[q] /\ w[p] # NoNetwork => i[p] = NoInterface \/ i[p] # i[q]

\* Ports are plugged in, taken out or moved to another network, and one may
\* take the place of another.
Rewire(ports) ==
  /\ \A p \in Port \ ports : where'[p] = where[p] /\ interface'[p] = interface[p]
  /\ NoLoop(where', interface')
  /\ receivers' = Reach(where')

Replace(p, q) ==
  /\ where[p] # NoNetwork /\ where[q] = NoNetwork
  /\ where' = [where EXCEPT ![p] = NoNetwork, ![q] = where[p]]
  /\ Rewire({p, q})

Move(p) == Rewire({p})

Next == \E p \in Port : Move(p) \/ \E q \in Port : Replace(p, q)

Spec == Init /\ [][Next]_vars
=============================================================================
