----------------------------- MODULE VNet_proofs -----------------------------
(***************************************************************************)
(* Proofs about vmnet: ports on networks (VNetPorts), for any number of    *)
(* files, ports, hubs and jacks, and the events of a hub (VNetEvent), for  *)
(* any number of senders, listeners and readers.                           *)
(*                                                                         *)
(* Inv says who owns a jack, the memory of a hub and a port, and that no   *)
(* interface is on a hub twice, which is what the search for cycles is     *)
(* for.  It holds whatever fails.  Owned adds that no jack is lost and     *)
(* that an open file has a connection, if memory is never short; Counted,  *)
(* that the numbers of ports are right, if nothing is connected while a    *)
(* jack is set up; Bound, that a file that is to be switched is connected  *)
(* until then.  A step is Quiet, when no port moves, or it Connects.       *)
(*                                                                         *)
(* The count of references to an event mechanism is that of the actors     *)
(* that have not dropped theirs, so the one who drops the last finds       *)
(* nobody else; who makes a sender or a listener has a jack of the hub,    *)
(* which is then a user.                                                   *)
(***************************************************************************)
EXTENDS VNetPorts, VNetEvent, FiniteSetTheorems, TLAPS

-----------------------------------------------------------------------------
(* Connections: what a net says of the ports of a hub *)

\* The ports of hub h.
OnHub(n, h) == {p \in Ports : n.peer[p] # NoJack /\ n.peer[p][1] = h}

\* A port's jack is private, and no other port's.
PeersOK(n) ==
  \A p \in Ports : n.peer[p] # NoJack =>
    n.peer[p] \in private /\ \A q \in Ports : n.peer[q] = n.peer[p] => q = p

\* The numbers of ports at some jacks and hubs are right.
CountsOK(n, jacks, hubs) ==
  /\ \A j \in jacks : n.numPorts[j] = Cardinality(OnHub(n, j[1])) - AttachedPorts(n, j)
  /\ \A h \in hubs : n.totalPorts[h] = Cardinality(OnHub(n, h))

\* The devices of bridges are in promiscuous mode when somebody else is there.
PromiscOK(n, bridges) ==
  \A p \in Ports :
    n.promisc[p] <=> p \in bridges /\ n.peer[p] # NoJack /\ OnHub(n, n.peer[p][1]) # {p}

LEMMA Jacks ==
  /\ NoJack \notin HubJacks
  /\ \A j \in HubJacks : j[1] \in Hubs /\ j \in JacksOf(j[1])
  /\ \A h \in Hubs : JacksOf(h) \subseteq HubJacks
  /\ \A h, j : j \in JacksOf(h) => j[1] = h
  BY PortsAssumption DEF NoJack, HubJacks, JacksOf

LEMMA OnHubFinite ==
  \A n, h : IsFiniteSet(OnHub(n, h)) /\ Cardinality(OnHub(n, h)) \in Nat
<1> SUFFICES ASSUME NEW n, NEW h
             PROVE  IsFiniteSet(OnHub(n, h)) /\ Cardinality(OnHub(n, h)) \in Nat
  OBVIOUS
<1>1. IsFiniteSet(Ports) /\ OnHub(n, h) \in SUBSET Ports
  BY PortsAssumption DEF OnHub
<1>2. IsFiniteSet(OnHub(n, h))
  BY <1>1, FS_Subset
<1> QED
  BY <1>2, FS_CardinalityType

\* A jack has one port or none.
LEMMA Attached ==
  ASSUME NEW n, PeersOK(n), NEW j, j # NoJack
  PROVE  /\ \A p \in Ports : n.peer[p] = j => AttachedPorts(n, j) = 1
         /\ (\A p \in Ports : n.peer[p] # j) => AttachedPorts(n, j) = 0
<1> DEFINE S == {p \in Ports : n.peer[p] = j}
<1>1. AttachedPorts(n, j) = Cardinality(S)
  BY DEF AttachedPorts
<1>2. ASSUME NEW p \in Ports, n.peer[p] = j PROVE AttachedPorts(n, j) = 1
  <2>1. S = {p}
    BY <1>2 DEF PeersOK
  <2> HIDE DEF S
  <2> QED
    BY <1>1, <2>1, FS_Singleton
<1>3. ASSUME \A p \in Ports : n.peer[p] # j PROVE AttachedPorts(n, j) = 0
  <2>1. S = {}
    BY <1>3
  <2> HIDE DEF S
  <2> QED
    BY <1>1, <2>1, FS_EmptySet
<1> QED
  BY <1>2, <1>3

\* What VNetHubPortsChanged leaves and makes of a net.
LEMMA HubPortsChangedIs ==
  ASSUME NEW n \in Net, PeersOK(n), NEW j \in HubJacks
  PROVE  LET m == HubPortsChanged(n, j)
             h == j[1]
             c == Cardinality(OnHub(n, h))
         IN  /\ m \in Net /\ m.peer = n.peer
             /\ m.totalPorts[h] = c /\ \A g \in Hubs \ {h} : m.totalPorts[g] = n.totalPorts[g]
             /\ \A k \in HubJacks : m.numPorts[k] =
                  IF k[1] = h /\ k \in private /\ k # j THEN c - AttachedPorts(n, k)
                  ELSE n.numPorts[k]
             /\ \A p \in Ports : m.promisc[p] =
                  IF n.peer[p] # NoJack /\ n.peer[p][1] = h /\ n.peer[p] # j /\ IsBridge(p)
                  THEN c - AttachedPorts(n, n.peer[p]) # 0 ELSE n.promisc[p]
<1> DEFINE h == j[1]
           mine == JacksOf(h) \cap private
           c == Cardinality(OnHub(n, h))
           num == [k \in HubJacks |-> IF k \in mine \ {j} THEN c - AttachedPorts(n, k)
                                      ELSE n.numPorts[k]]
           promisc == [p \in Ports |-> IF n.peer[p] \in mine \ {j} /\ IsBridge(p)
                                       THEN num[n.peer[p]] # 0 ELSE n.promisc[p]]
           m == HubPortsChanged(n, j)
<1>0. h \in Hubs /\ n.peer \in [Ports -> HubJacks \cup {NoJack}]
      /\ n.numPorts \in [HubJacks -> Int] /\ n.totalPorts \in [Hubs -> Nat]
      /\ n.promisc \in [Ports -> BOOLEAN]
  BY Jacks DEF Net
<1>1. \A p \in Ports : n.peer[p] \in mine <=> n.peer[p] # NoJack /\ n.peer[p][1] = h
  BY <1>0, Jacks DEF PeersOK
<1>2. {p \in Ports : n.peer[p] \in mine} = OnHub(n, h)
  BY <1>1 DEF OnHub
<1>3. m = [n EXCEPT !.totalPorts[h] = c, !.numPorts = num, !.promisc = promisc]
  BY <1>2 DEF HubPortsChanged
<1>4. c \in Nat
  BY OnHubFinite
<1>5. \A k \in HubJacks : AttachedPorts(n, k) \in Int
  <2> SUFFICES ASSUME NEW k \in HubJacks PROVE AttachedPorts(n, k) \in Int
    OBVIOUS
  <2>1. k # NoJack
    BY Jacks
  <2> QED
    BY <2>1, Attached
<1>6. num \in [HubJacks -> Int]
  BY <1>0, <1>4, <1>5
<1>7. promisc \in [Ports -> BOOLEAN]
  BY <1>0
<1>8. \A k \in HubJacks : k \in mine <=> k[1] = h /\ k \in private
  BY Jacks
<1>9. \A p \in Ports : n.peer[p] # NoJack => n.peer[p] \in HubJacks
  BY <1>0
<1>10. \A k \in HubJacks : num[k] = IF k[1] = h /\ k \in private /\ k # j
                                   THEN c - AttachedPorts(n, k) ELSE n.numPorts[k]
  BY <1>8
<1>11. \A p \in Ports : promisc[p] =
         IF n.peer[p] # NoJack /\ n.peer[p][1] = h /\ n.peer[p] # j /\ IsBridge(p)
         THEN c - AttachedPorts(n, n.peer[p]) # 0 ELSE n.promisc[p]
  BY <1>1, <1>8, <1>9, <1>10
<1> HIDE DEF num, promisc, c
<1>12. m = [peer |-> n.peer, numPorts |-> num, totalPorts |-> [n.totalPorts EXCEPT ![h] = c],
            promisc |-> promisc]
  BY <1>3 DEF Net
<1> HIDE DEF m, h
<1>13. m \in Net
  BY <1>0, <1>4, <1>6, <1>7, <1>12 DEF Net
<1>14. m.totalPorts[h] = c /\ \A g \in Hubs \ {h} : m.totalPorts[g] = n.totalPorts[g]
  BY <1>0, <1>12
<1>15. m.peer = n.peer /\ m.numPorts = num /\ m.promisc = promisc
  BY <1>12
<1> QED
  BY <1>10, <1>11, <1>13, <1>14, <1>15 DEF m, h, c

Bridges == {p \in Ports : IsBridge(p)}

\* A net in which one port was moved.
LEMMA PeerMoved ==
  ASSUME NEW n \in Net, NEW p \in Ports, NEW j \in HubJacks \cup {NoJack}
  PROVE  LET m == [n EXCEPT !.peer[p] = j]
         IN  /\ m \in Net /\ m.peer = [n.peer EXCEPT ![p] = j]
             /\ m.numPorts = n.numPorts /\ m.totalPorts = n.totalPorts /\ m.promisc = n.promisc
<1> DEFINE peer == [n.peer EXCEPT ![p] = j]
<1>1. peer \in [Ports -> HubJacks \cup {NoJack}]
  BY DEF Net
<1>2. [n EXCEPT !.peer[p] = j] = [n EXCEPT !.peer = peer]
  OBVIOUS
<1> HIDE DEF peer
<1>3. [n EXCEPT !.peer = peer] = [peer |-> peer, numPorts |-> n.numPorts,
                                  totalPorts |-> n.totalPorts, promisc |-> n.promisc]
  BY DEF Net
<1>4. [n EXCEPT !.peer = peer] \in Net
  BY <1>1, <1>3 DEF Net
<1> QED
  BY <1>2, <1>3, <1>4 DEF peer

\* VNetDisconnect keeps the numbers and the bridges right.
LEMMA DisconnectedIs ==
  ASSUME NEW n \in Net, PeersOK(n), NEW p \in Ports, n.peer[p] # NoJack,
         private \subseteq HubJacks, hubList \subseteq Hubs
  PROVE  LET m == Disconnected(n, p)
         IN  /\ m \in Net /\ m.peer = [n.peer EXCEPT ![p] = NoJack] /\ PeersOK(m)
             /\ CountsOK(n, private, hubList) =>
                  /\ CountsOK(m, private, hubList)
                  /\ PromiscOK(n, Bridges) => PromiscOK(m, Bridges)
<1> DEFINE j == n.peer[p]
           h == j[1]
           a == [n EXCEPT !.peer[p] = NoJack]
           b == HubPortsChanged(a, j)
           m == Disconnected(n, p)
<1>1. j \in HubJacks /\ h \in Hubs /\ n.peer \in [Ports -> HubJacks \cup {NoJack}] /\ j # NoJack
  BY Jacks DEF Net
<1>2. /\ a \in Net /\ a.peer = [n.peer EXCEPT ![p] = NoJack]
      /\ a.numPorts = n.numPorts /\ a.totalPorts = n.totalPorts /\ a.promisc = n.promisc
  BY PeerMoved
<1> HIDE DEF a
<1>3. /\ a.peer[p] = NoJack /\ \A q \in Ports : q # p => a.peer[q] = n.peer[q]
  BY <1>1, <1>2
<1>4. PeersOK(a)
  BY <1>3 DEF PeersOK
<1> DEFINE c == Cardinality(OnHub(a, h))
<1>5. /\ b \in Net /\ b.peer = a.peer
      /\ b.totalPorts[h] = c /\ \A g \in Hubs \ {h} : b.totalPorts[g] = n.totalPorts[g]
      /\ \A k \in HubJacks : b.numPorts[k] =
           IF k[1] = h /\ k \in private /\ k # j THEN c - AttachedPorts(a, k) ELSE n.numPorts[k]
      /\ \A q \in Ports : b.promisc[q] =
           IF a.peer[q] # NoJack /\ a.peer[q][1] = h /\ a.peer[q] # j /\ IsBridge(q)
           THEN c - AttachedPorts(a, a.peer[q]) # 0 ELSE n.promisc[q]
  BY <1>1, <1>2, <1>4, HubPortsChangedIs
<1> DEFINE off == b.promisc[p] /\ n.numPorts[j] = 0
<1>6. m = [b EXCEPT !.promisc = [b.promisc EXCEPT ![p] = off]]
  BY DEF Disconnected, a
<1>7. /\ m \in Net /\ m.peer = b.peer /\ m.numPorts = b.numPorts /\ m.totalPorts = b.totalPorts
      /\ m.promisc = [b.promisc EXCEPT ![p] = off]
  <2>1. off \in BOOLEAN
    OBVIOUS
  <2> HIDE DEF off, m, b
  <2>2. m = [peer |-> b.peer, numPorts |-> b.numPorts, totalPorts |-> b.totalPorts,
             promisc |-> [b.promisc EXCEPT ![p] = off]]
    BY <1>5, <1>6 DEF Net
  <2>3. [b.promisc EXCEPT ![p] = off] \in [Ports -> BOOLEAN]
    BY <1>5, <2>1 DEF Net
  <2> QED
    BY <1>5, <2>2, <2>3 DEF Net
<1> HIDE DEF m, b
<1>8. PeersOK(m)
  BY <1>4, <1>5, <1>7 DEF PeersOK
<1>9. /\ OnHub(a, h) = OnHub(n, h) \ {p} /\ p \in OnHub(n, h)
      /\ \A g : g # h => OnHub(a, g) = OnHub(n, g)
      /\ \A g : OnHub(m, g) = OnHub(a, g)
  BY <1>1, <1>3, <1>5, <1>7 DEF OnHub
<1>10. /\ c = Cardinality(OnHub(n, h)) - 1 /\ c \in Nat /\ Cardinality(OnHub(n, h)) \in Nat
       /\ Cardinality(OnHub(m, h)) = c /\ OnHub(m, h) = OnHub(n, h) \ {p}
  <2>1. /\ IsFiniteSet(OnHub(n, h)) /\ Cardinality(OnHub(n, h)) \in Nat
        /\ Cardinality(OnHub(a, h)) \in Nat /\ OnHub(m, h) = OnHub(a, h)
    BY <1>9, OnHubFinite
  <2>2. Cardinality(OnHub(n, h) \ {p}) = Cardinality(OnHub(n, h)) - 1
    BY <1>9, <2>1, FS_RemoveElement
  <2> QED
    BY <1>9, <2>1, <2>2
<1>00. \A g : g # h => OnHub(m, g) = OnHub(n, g)
  BY <1>9
<1> HIDE DEF c
<1>11. \A k \in HubJacks : k # j => AttachedPorts(m, k) = AttachedPorts(n, k)
                                    /\ AttachedPorts(a, k) = AttachedPorts(n, k)
  <2> SUFFICES ASSUME NEW k \in HubJacks, k # j
               PROVE  AttachedPorts(m, k) = AttachedPorts(n, k)
                      /\ AttachedPorts(a, k) = AttachedPorts(n, k)
    OBVIOUS
  <2>1. k # NoJack
    BY Jacks
  <2>2. \A q \in Ports : (n.peer[q] = k <=> a.peer[q] = k) /\ (n.peer[q] = k <=> m.peer[q] = k)
    BY <1>3, <1>5, <1>7, <2>1
  <2> QED
    BY <2>2 DEF AttachedPorts
<1>12. AttachedPorts(m, j) = 0 /\ AttachedPorts(n, j) = 1
  <2>1. \A q \in Ports : m.peer[q] # j
    BY <1>1, <1>3, <1>5, <1>7 DEF PeersOK
  <2> QED
    BY <1>1, <1>8, <2>1, Attached
<1>13. ASSUME CountsOK(n, private, hubList) PROVE CountsOK(m, private, hubList)
  <2>1. ASSUME NEW k \in private
        PROVE  m.numPorts[k] = Cardinality(OnHub(m, k[1])) - AttachedPorts(m, k)
    <3>1. k \in HubJacks /\ n.numPorts[k] = Cardinality(OnHub(n, k[1])) - AttachedPorts(n, k)
      BY <1>13 DEF CountsOK
    <3>2. CASE k = j
      <4>1. m.numPorts[k] = Cardinality(OnHub(n, h)) - 1
        BY <1>1, <1>5, <1>7, <1>12, <3>1, <3>2
      <4>2. OnHub(m, k[1]) = OnHub(m, h) /\ AttachedPorts(m, k) = 0
        BY <1>12, <3>2
      <4>3. Cardinality(OnHub(m, k[1])) = c
        BY <1>10, <4>2
      <4> QED
        BY <1>10, <4>1, <4>2, <4>3
    <3>3. CASE k # j /\ k[1] = h
      <4>1. m.numPorts[k] = c - AttachedPorts(a, k)
        BY <1>5, <1>7, <3>1, <3>3
      <4> QED
        BY <1>10, <1>11, <3>1, <3>3, <4>1
    <3>4. CASE k # j /\ k[1] # h
      <4>1. m.numPorts[k] = n.numPorts[k]
        BY <1>5, <1>7, <3>1, <3>4
      <4>2. OnHub(m, k[1]) = OnHub(n, k[1])
        BY <1>00, <3>4
      <4> QED
        BY <1>11, <3>1, <3>4, <4>1, <4>2
    <3> QED
      BY <3>2, <3>3, <3>4
  <2>2. ASSUME NEW g \in hubList PROVE m.totalPorts[g] = Cardinality(OnHub(m, g))
    <3>1. g \in Hubs /\ n.totalPorts[g] = Cardinality(OnHub(n, g))
      BY <1>13 DEF CountsOK
    <3>2. CASE g = h
      BY <1>5, <1>7, <1>10, <3>2
    <3>3. CASE g # h
      <4>1. OnHub(m, g) = OnHub(n, g)
        BY <1>00, <3>3
      <4> QED
        BY <1>5, <1>7, <3>1, <3>3, <4>1
    <3> QED
      BY <3>2, <3>3
  <2> QED
    BY <2>1, <2>2 DEF CountsOK
<1>14. ASSUME CountsOK(n, private, hubList), PromiscOK(n, Bridges) PROVE PromiscOK(m, Bridges)
  <2> SUFFICES ASSUME NEW q \in Ports
               PROVE  m.promisc[q] <=> /\ q \in Bridges /\ m.peer[q] # NoJack
                                       /\ OnHub(m, m.peer[q][1]) # {q}
    BY DEF PromiscOK
  <2>1. n.promisc[q] <=> q \in Bridges /\ n.peer[q] # NoJack /\ OnHub(n, n.peer[q][1]) # {q}
    BY <1>14 DEF PromiscOK
  <2>2. b.promisc \in [Ports -> BOOLEAN]
    BY <1>5 DEF Net
  <2>3. CASE q = p
    <3>1. m.promisc[q] = off /\ m.peer[q] = NoJack
      BY <1>3, <1>5, <1>7, <2>2, <2>3
    <3>2. b.promisc[p] = n.promisc[p]
      BY <1>3, <1>5
    <3>3. n.numPorts[j] = c
      <4>1. j \in private
        BY <1>1 DEF PeersOK
      <4>2. n.numPorts[j] = Cardinality(OnHub(n, h)) - AttachedPorts(n, j)
        BY <1>14, <4>1 DEF CountsOK
      <4> QED
        BY <1>10, <1>12, <4>2
    <3>4. c = 0 <=> OnHub(n, h) = {p}
      <4>1. IsFiniteSet(OnHub(m, h)) /\ Cardinality(OnHub(m, h)) = c
        BY <1>10, OnHubFinite
      <4>2. c = 0 <=> OnHub(m, h) = {}
        BY <4>1, FS_EmptySet
      <4> QED
        BY <1>9, <1>10, <4>2
    <3> QED
      BY <2>1, <2>3, <3>1, <3>2, <3>3, <3>4
  <2>4. CASE q # p
    <3>1. m.peer[q] = n.peer[q] /\ a.peer[q] = n.peer[q] /\ m.promisc[q] = b.promisc[q]
      BY <1>3, <1>5, <1>7, <2>2, <2>4
    <3>2. CASE n.peer[q] # NoJack /\ n.peer[q][1] = h
      <4>1. n.peer[q] # j /\ n.peer[q] \in HubJacks
        BY <1>1, <2>4, <3>2 DEF PeersOK
      <4>2. AttachedPorts(a, n.peer[q]) = 1
        BY <1>4, <3>1, <3>2, Attached
      <4>3. m.promisc[q] = IF IsBridge(q) THEN c - 1 # 0 ELSE n.promisc[q]
        <5>1. b.promisc[q] = IF IsBridge(q) THEN c - AttachedPorts(a, a.peer[q]) # 0
                             ELSE n.promisc[q]
          BY <1>5, <3>1, <3>2, <4>1
        <5>2. AttachedPorts(a, a.peer[q]) = 1
          BY <3>1, <4>2
        <5> QED
          BY <3>1, <5>1, <5>2
      <4>4. c - 1 # 0 <=> OnHub(m, h) # {q}
        <5>1. q \in OnHub(m, h)
          BY <3>1, <3>2 DEF OnHub
        <5>2. IsFiniteSet(OnHub(m, h))
          BY OnHubFinite
        <5>3. Cardinality(OnHub(m, h)) = 1 <=> \E x : OnHub(m, h) = {x}
          BY <5>2, FS_Singleton
        <5>4. Cardinality(OnHub(m, h)) = 1 <=> OnHub(m, h) = {q}
          BY <5>1, <5>3
        <5>5. Cardinality(OnHub(m, h)) = 1 <=> c - 1 = 0
          BY <1>10
        <5> QED
          BY <5>4, <5>5
      <4>5. q \in Bridges <=> IsBridge(q)
        BY DEF Bridges
      <4> QED
        BY <2>1, <3>1, <3>2, <4>3, <4>4, <4>5
    <3>3. CASE n.peer[q] = NoJack \/ n.peer[q][1] # h
      <4>1. m.promisc[q] = n.promisc[q]
        BY <1>5, <3>1, <3>3
      <4>2. n.peer[q] # NoJack => OnHub(m, n.peer[q][1]) = OnHub(n, n.peer[q][1])
        BY <1>9, <3>3
      <4> QED
        BY <2>1, <3>1, <4>1, <4>2
    <3> QED
      BY <3>2, <3>3
  <2> QED
    BY <2>3, <2>4
<1> QED
  BY <1>2, <1>5, <1>7, <1>8, <1>13, <1>14 DEF m

\* VNetConnect to a jack that nobody is at keeps them right.
LEMMA ConnectedIs ==
  ASSUME NEW n \in Net, PeersOK(n), NEW p \in Ports, n.peer[p] = NoJack,
         NEW j \in private, \A q \in Ports : n.peer[q] # j, NEW bridge \in BOOLEAN,
         private \subseteq HubJacks, hubList \subseteq Hubs
  PROVE  LET m == Connected(n, p, bridge, j)
         IN  /\ m \in Net /\ m.peer = [n.peer EXCEPT ![p] = j] /\ PeersOK(m)
             /\ CountsOK(n, private, hubList) =>
                  /\ CountsOK(m, private, hubList)
                  /\ PromiscOK(n, Bridges) =>
                       PromiscOK(m, IF bridge THEN Bridges \cup {p} ELSE Bridges \ {p})
<1> DEFINE h == j[1]
           a == [n EXCEPT !.peer[p] = j]
           b == HubPortsChanged(a, j)
           m == Connected(n, p, bridge, j)
<1>1. j \in HubJacks /\ h \in Hubs /\ n.peer \in [Ports -> HubJacks \cup {NoJack}] /\ j # NoJack
  BY Jacks DEF Net
<1>2. /\ a \in Net /\ a.peer = [n.peer EXCEPT ![p] = j]
      /\ a.numPorts = n.numPorts /\ a.totalPorts = n.totalPorts /\ a.promisc = n.promisc
  BY <1>1, PeerMoved
<1> HIDE DEF a
<1>3. /\ a.peer[p] = j /\ \A q \in Ports : q # p => a.peer[q] = n.peer[q]
  BY <1>1, <1>2
<1>4. PeersOK(a)
  BY <1>3 DEF PeersOK
<1> DEFINE c == Cardinality(OnHub(a, h))
<1>5. /\ b \in Net /\ b.peer = a.peer
      /\ b.totalPorts[h] = c /\ \A g \in Hubs \ {h} : b.totalPorts[g] = n.totalPorts[g]
      /\ \A k \in HubJacks : b.numPorts[k] =
           IF k[1] = h /\ k \in private /\ k # j THEN c - AttachedPorts(a, k) ELSE n.numPorts[k]
      /\ \A q \in Ports : b.promisc[q] =
           IF a.peer[q] # NoJack /\ a.peer[q][1] = h /\ a.peer[q] # j /\ IsBridge(q)
           THEN c - AttachedPorts(a, a.peer[q]) # 0 ELSE n.promisc[q]
  BY <1>1, <1>2, <1>4, HubPortsChangedIs
<1> DEFINE on == b.promisc[p] \/ (bridge /\ n.numPorts[j] # 0)
<1>6. m = [b EXCEPT !.promisc = [b.promisc EXCEPT ![p] = on]]
  BY DEF Connected, a
<1>7. /\ m \in Net /\ m.peer = b.peer /\ m.numPorts = b.numPorts /\ m.totalPorts = b.totalPorts
      /\ m.promisc = [b.promisc EXCEPT ![p] = on]
  <2>1. on \in BOOLEAN
    OBVIOUS
  <2> HIDE DEF on, m, b
  <2>2. m = [peer |-> b.peer, numPorts |-> b.numPorts, totalPorts |-> b.totalPorts,
             promisc |-> [b.promisc EXCEPT ![p] = on]]
    BY <1>5, <1>6 DEF Net
  <2>3. [b.promisc EXCEPT ![p] = on] \in [Ports -> BOOLEAN]
    BY <1>5, <2>1 DEF Net
  <2> QED
    BY <1>5, <2>2, <2>3 DEF Net
<1> HIDE DEF m, b
<1>8. PeersOK(m)
  BY <1>4, <1>5, <1>7 DEF PeersOK
<1>9. /\ OnHub(a, h) = OnHub(n, h) \cup {p} /\ p \notin OnHub(n, h)
      /\ \A g : g # h => OnHub(a, g) = OnHub(n, g)
      /\ \A g : OnHub(m, g) = OnHub(a, g)
  BY <1>1, <1>3, <1>5, <1>7 DEF OnHub
<1>10. /\ c = Cardinality(OnHub(n, h)) + 1 /\ c \in Nat /\ Cardinality(OnHub(n, h)) \in Nat
       /\ Cardinality(OnHub(m, h)) = c /\ OnHub(m, h) = OnHub(n, h) \cup {p}
  <2>1. /\ IsFiniteSet(OnHub(n, h)) /\ Cardinality(OnHub(n, h)) \in Nat
        /\ Cardinality(OnHub(a, h)) \in Nat /\ OnHub(m, h) = OnHub(a, h)
    BY <1>9, OnHubFinite
  <2>2. Cardinality(OnHub(n, h) \cup {p}) = Cardinality(OnHub(n, h)) + 1
    BY <1>9, <2>1, FS_AddElement
  <2> QED
    BY <1>9, <2>1, <2>2
<1>00. \A g : g # h => OnHub(m, g) = OnHub(n, g)
  BY <1>9
<1> HIDE DEF c
<1>11. \A k \in HubJacks : k # j => AttachedPorts(m, k) = AttachedPorts(n, k)
                                    /\ AttachedPorts(a, k) = AttachedPorts(n, k)
  <2> SUFFICES ASSUME NEW k \in HubJacks, k # j
               PROVE  AttachedPorts(m, k) = AttachedPorts(n, k)
                      /\ AttachedPorts(a, k) = AttachedPorts(n, k)
    OBVIOUS
  <2>1. k # NoJack
    BY Jacks
  <2>2. \A q \in Ports : (n.peer[q] = k <=> a.peer[q] = k) /\ (n.peer[q] = k <=> m.peer[q] = k)
    BY <1>3, <1>5, <1>7, <2>1
  <2> QED
    BY <2>2 DEF AttachedPorts
<1>12. AttachedPorts(m, j) = 1 /\ AttachedPorts(n, j) = 0
  <2>1. m.peer[p] = j
    BY <1>3, <1>5, <1>7
  <2> QED
    BY <1>1, <1>8, <2>1, Attached
<1>13. ASSUME CountsOK(n, private, hubList)
       PROVE  CountsOK(m, private, hubList) /\ n.numPorts[j] = Cardinality(OnHub(n, h))
  <2>0. n.numPorts[j] = Cardinality(OnHub(n, h))
    <3>1. n.numPorts[j] = Cardinality(OnHub(n, h)) - AttachedPorts(n, j)
      BY <1>13 DEF CountsOK
    <3> QED
      BY <1>10, <1>12, <3>1
  <2>1. ASSUME NEW k \in private
        PROVE  m.numPorts[k] = Cardinality(OnHub(m, k[1])) - AttachedPorts(m, k)
    <3>1. k \in HubJacks /\ n.numPorts[k] = Cardinality(OnHub(n, k[1])) - AttachedPorts(n, k)
      BY <1>13 DEF CountsOK
    <3>2. CASE k = j
      <4>1. m.numPorts[k] = Cardinality(OnHub(n, h))
        BY <1>1, <1>5, <1>7, <2>0, <3>2
      <4>2. OnHub(m, k[1]) = OnHub(m, h) /\ AttachedPorts(m, k) = 1
        BY <1>12, <3>2
      <4>3. Cardinality(OnHub(m, k[1])) = c
        BY <1>10, <4>2
      <4> QED
        BY <1>10, <4>1, <4>2, <4>3
    <3>3. CASE k # j /\ k[1] = h
      <4>1. m.numPorts[k] = c - AttachedPorts(a, k)
        BY <1>5, <1>7, <3>1, <3>3
      <4> QED
        BY <1>10, <1>11, <3>1, <3>3, <4>1
    <3>4. CASE k # j /\ k[1] # h
      <4>1. m.numPorts[k] = n.numPorts[k]
        BY <1>5, <1>7, <3>1, <3>4
      <4>2. OnHub(m, k[1]) = OnHub(n, k[1])
        BY <1>00, <3>4
      <4> QED
        BY <1>11, <3>1, <3>4, <4>1, <4>2
    <3> QED
      BY <3>2, <3>3, <3>4
  <2>2. ASSUME NEW g \in hubList PROVE m.totalPorts[g] = Cardinality(OnHub(m, g))
    <3>1. g \in Hubs /\ n.totalPorts[g] = Cardinality(OnHub(n, g))
      BY <1>13 DEF CountsOK
    <3>2. CASE g = h
      BY <1>5, <1>7, <1>10, <3>2
    <3>3. CASE g # h
      <4>1. OnHub(m, g) = OnHub(n, g)
        BY <1>00, <3>3
      <4> QED
        BY <1>5, <1>7, <3>1, <3>3, <4>1
    <3> QED
      BY <3>2, <3>3
  <2> QED
    BY <2>0, <2>1, <2>2 DEF CountsOK
<1> DEFINE B == IF bridge THEN Bridges \cup {p} ELSE Bridges \ {p}
<1>14. ASSUME CountsOK(n, private, hubList), PromiscOK(n, Bridges) PROVE PromiscOK(m, B)
  <2>0. p \in B <=> bridge
    OBVIOUS
  <2>00. \A q \in Ports : q # p => (q \in B <=> q \in Bridges)
    OBVIOUS
  <2> HIDE DEF B
  <2> SUFFICES ASSUME NEW q \in Ports
               PROVE  m.promisc[q] <=> /\ q \in B /\ m.peer[q] # NoJack
                                       /\ OnHub(m, m.peer[q][1]) # {q}
    BY DEF PromiscOK
  <2>1. n.promisc[q] <=> q \in Bridges /\ n.peer[q] # NoJack /\ OnHub(n, n.peer[q][1]) # {q}
    BY <1>14 DEF PromiscOK
  <2>2. b.promisc \in [Ports -> BOOLEAN]
    BY <1>5 DEF Net
  <2>3. CASE q = p
    <3>1. m.promisc[q] = on /\ m.peer[q] = j
      BY <1>3, <1>5, <1>7, <2>2, <2>3
    <3>2. ~b.promisc[p]
      <4>1. b.promisc[p] = n.promisc[p]
        BY <1>3, <1>5
      <4> QED
        BY <2>1, <2>3, <4>1
    <3>3. n.numPorts[j] = 0 <=> OnHub(m, h) = {p}
      <4>1. n.numPorts[j] = 0 <=> OnHub(n, h) = {}
        BY <1>13, <1>14, OnHubFinite, FS_EmptySet
      <4> QED
        BY <1>9, <4>1
    <3> QED
      BY <1>1, <2>0, <2>3, <3>1, <3>2, <3>3
  <2>4. CASE q # p
    <3>1. m.peer[q] = n.peer[q] /\ a.peer[q] = n.peer[q] /\ m.promisc[q] = b.promisc[q]
      BY <1>3, <1>5, <1>7, <2>2, <2>4
    <3>2. CASE n.peer[q] # NoJack /\ n.peer[q][1] = h
      <4>1. n.peer[q] # j /\ n.peer[q] \in HubJacks
        BY <1>1, <3>2
      <4>2. AttachedPorts(a, n.peer[q]) = 1
        BY <1>4, <3>1, <3>2, Attached
      <4>3. m.promisc[q] = IF IsBridge(q) THEN c - 1 # 0 ELSE n.promisc[q]
        <5>1. b.promisc[q] = IF IsBridge(q) THEN c - AttachedPorts(a, a.peer[q]) # 0
                             ELSE n.promisc[q]
          BY <1>5, <3>1, <3>2, <4>1
        <5>2. AttachedPorts(a, a.peer[q]) = 1
          BY <3>1, <4>2
        <5> QED
          BY <3>1, <5>1, <5>2
      <4>4. c - 1 # 0 <=> OnHub(m, h) # {q}
        <5>1. q \in OnHub(m, h)
          BY <3>1, <3>2 DEF OnHub
        <5>2. IsFiniteSet(OnHub(m, h))
          BY OnHubFinite
        <5>3. Cardinality(OnHub(m, h)) = 1 <=> \E x : OnHub(m, h) = {x}
          BY <5>2, FS_Singleton
        <5>4. Cardinality(OnHub(m, h)) = 1 <=> OnHub(m, h) = {q}
          BY <5>1, <5>3
        <5>5. Cardinality(OnHub(m, h)) = 1 <=> c - 1 = 0
          BY <1>10
        <5> QED
          BY <5>4, <5>5
      <4>5. q \in Bridges <=> IsBridge(q)
        BY DEF Bridges
      <4> QED
        BY <2>00, <2>1, <2>4, <3>1, <3>2, <4>3, <4>4, <4>5
    <3>3. CASE n.peer[q] = NoJack \/ n.peer[q][1] # h
      <4>1. m.promisc[q] = n.promisc[q]
        BY <1>5, <3>1, <3>3
      <4>2. n.peer[q] # NoJack => OnHub(m, n.peer[q][1]) = OnHub(n, n.peer[q][1])
        BY <1>9, <3>3
      <4> QED
        BY <2>00, <2>1, <2>4, <3>1, <4>1, <4>2
    <3> QED
      BY <3>2, <3>3
  <2> QED
    BY <2>3, <2>4
<1> QED
  BY <1>2, <1>5, <1>7, <1>8, <1>13, <1>14 DEF m

-----------------------------------------------------------------------------
(* The invariant *)

\* File f has jack j for itself: it is to connect its port to it or to free it.
HoldsPc == {"entry", "private", "connect", "clear", "unuse"}
Holds(f, j) == file[f].pc \in HoldsPc /\ file[f].jack = j
\* File f has the memory of hub h for itself.
Maker(f, h) == file[f].pc \in {"add", "kfree"} /\ file[f].jack[1] = h

\* What a file is about, by where it is.
Fits(r) ==
  /\ r.pc = "closed" => r = Closed
  /\ r.pc = "ready" => r.port \in Ports /\ r.call = "none"
  /\ r.pc \in {"find", "add", "entry", "private", "connect"} =>
       r.port \in Ports /\ r.call \in {"open", "bind"} /\ r.want \in Numbers
  /\ r.pc = "add" => r.jack \in Hubs \X {0}
  /\ r.pc \in HoldsPc \cup {"kfree"} => r.jack \in HubJacks
  /\ r.pc \in {"clear", "unuse", "kfree"} /\ r.port # NoPort => r.call = "bind"

FilesFit == \A f \in Files : Fits(file[f])

\* A port is one file's or free, and only an open file's can be connected.
PortsFit ==
  /\ \A f, g \in Files : file[f].port = file[g].port /\ file[f].port # NoPort => f = g
  /\ \A f \in Files : file[f].port # NoPort =>
       /\ port[file[f].port].open
       /\ file[f].call = "open" => /\ port[file[f].port].interface = NoInterface
                                   /\ net.peer[file[f].port] = NoJack
  /\ \A p \in Ports : (\A f \in Files : file[f].port # p) =>
       port[p] = FreePort /\ net.peer[p] = NoJack

\* A jack that a file has is nobody else's.
JacksFit ==
  /\ PeersOK(net)
  /\ \A j \in used : j[1] \in hubList
  /\ \A f \in Files, j \in HubJacks : Holds(f, j) =>
       /\ j \in used
       /\ j \in private <=> file[f].pc \in {"connect", "clear"}
       /\ \A p \in Ports : net.peer[p] # j
       /\ \A g \in Files : Holds(g, j) => g = f

\* Memory is of a hub that is listed or that one file makes or frees.
HubsFit ==
  /\ \A h \in Hubs : number[h] # NoNumber <=> h \in hubList \/ \E f \in Files : Maker(f, h)
  /\ \A f, g \in Files, h \in Hubs : Maker(f, h) => h \notin hubList /\ (Maker(g, h) => g = f)
  /\ \A f \in Files : At(f, "add") => number[file[f].jack[1]] = file[f].want
  /\ \A g, h \in hubList : number[g] = number[h] => g = h

\* No interface is on a hub twice.
NoLoops(n, interface) ==
  \A p, q \in Ports :
    p # q /\ n.peer[p] # NoJack /\ n.peer[q] # NoJack /\ n.peer[p][1] = n.peer[q][1]
      => interface[p] = NoInterface \/ interface[p] # interface[q]

Interface == [p \in Ports |-> port[p].interface]

Inv == TypeOK /\ FilesFit /\ PortsFit /\ JacksFit /\ HubsFit /\ NoLoops(net, Interface)

\* Where memory is never short: a jack that is used is a file's or a port's, and
\* a file that is open has a connection.
Owned ==
  /\ \A j \in used : (\E f \in Files : Holds(f, j)) \/ \E p \in Ports : net.peer[p] = j
  /\ \A f \in Files : file[f].pc = "ready" \/ file[f].call = "bind"
                        => file[f].port = NoPort \/ net.peer[file[f].port] # NoJack

\* Where nothing is connected while a jack is set up: the numbers are right, also
\* of a jack that is about to become private.
Counted ==
  /\ CountsOK(net, private \cup {j \in HubJacks : \E f \in Files : At(f, "private") /\ Holds(f, j)},
              hubList)
  /\ PromiscOK(net, Bridges)

-----------------------------------------------------------------------------
(* What most steps leave as it is *)

\* The types of the connections and of a file.
LEMMA Typed ==
  ASSUME TypeOK
  PROVE  /\ net \in Net /\ net.peer \in [Ports -> HubJacks \cup {NoJack}]
         /\ private \subseteq HubJacks /\ hubList \subseteq Hubs
         /\ \A f \in Files :
              /\ file[f] = [pc |-> file[f].pc, call |-> file[f].call, port |-> file[f].port,
                           want |-> file[f].want, jack |-> file[f].jack]
              /\ file[f].port \in Ports \cup {NoPort} /\ file[f] \in File
  BY DEF TypeOK, Net, File

\* A file goes on.
LEMMA FileStep ==
  ASSUME TypeOK, FilesFit, NEW f \in Files, NEW r \in File, Fits(r),
         file' = [file EXCEPT ![f] = r]
  PROVE  /\ file' \in [Files -> File] /\ FilesFit' /\ file'[f] = r
         /\ \A g \in Files : g # f => file'[g] = file[g]
<1>1. /\ file' \in [Files -> File] /\ file'[f] = r
      /\ \A g \in Files : g # f => file'[g] = file[g]
  BY DEF TypeOK
<1>2. FilesFit'
  BY <1>1 DEF FilesFit, Fits
<1> QED
  BY <1>1, <1>2

\* File f becomes r, and the others stay.
Turns(f, r) == file'[f] = r /\ \A g \in Files : g # f => file'[g] = file[g]

\* Files that are the same but for a field of one of them.
Differs(new, old, f, field) ==
  /\ \A g \in Files : g # f => new[g] = old[g]
  /\ field # "pc" => new[f].pc = old[f].pc
  /\ field # "call" => new[f].call = old[f].call
  /\ field # "port" => new[f].port = old[f].port
  /\ field # "want" => new[f].want = old[f].want
  /\ field # "jack" => new[f].jack = old[f].jack

Pcs == {"closed", "find", "add", "entry", "private", "connect", "ready", "clear", "unuse", "kfree"}
Calls == {"none", "open", "bind", "replace", "close"}

LEMMA PcWith ==
  ASSUME NEW old \in [Files -> File], NEW f \in Files, NEW x \in Pcs
  PROVE  LET new == [old EXCEPT ![f].pc = x]
         IN  new \in [Files -> File] /\ Differs(new, old, f, "pc") /\ new[f].pc = x
  BY DEF File, Differs, Pcs, Calls

LEMMA CallWith ==
  ASSUME NEW old \in [Files -> File], NEW f \in Files, NEW x \in Calls
  PROVE  LET new == [old EXCEPT ![f].call = x]
         IN  new \in [Files -> File] /\ Differs(new, old, f, "call") /\ new[f].call = x
  BY DEF File, Differs, Pcs, Calls

LEMMA PortWith ==
  ASSUME NEW old \in [Files -> File], NEW f \in Files, NEW x \in Ports \cup {NoPort}
  PROVE  LET new == [old EXCEPT ![f].port = x]
         IN  new \in [Files -> File] /\ Differs(new, old, f, "port") /\ new[f].port = x
  BY DEF File, Differs, Pcs, Calls

LEMMA WantWith ==
  ASSUME NEW old \in [Files -> File], NEW f \in Files, NEW x \in Numbers \cup {NoNumber}
  PROVE  LET new == [old EXCEPT ![f].want = x]
         IN  new \in [Files -> File] /\ Differs(new, old, f, "want") /\ new[f].want = x
  BY DEF File, Differs, Pcs, Calls

LEMMA JackWith ==
  ASSUME NEW old \in [Files -> File], NEW f \in Files,
         NEW x \in HubJacks \cup (Hubs \X {0}) \cup {NoJack}
  PROVE  LET new == [old EXCEPT ![f].jack = x]
         IN  new \in [Files -> File] /\ Differs(new, old, f, "jack") /\ new[f].jack = x
  BY DEF File, Differs, Pcs, Calls

LEMMA FieldsStep ==
  ASSUME TypeOK, FilesFit, NEW f \in Files, NEW r \in File, Fits(r),
         file' \in [Files -> File], \A g \in Files : g # f => file'[g] = file[g],
         file'[f].pc = r.pc, file'[f].call = r.call, file'[f].port = r.port,
         file'[f].want = r.want, file'[f].jack = r.jack
  PROVE  FilesFit' /\ Turns(f, r)
<1>1. file'[f] = r
  BY DEF File
<1>2. FilesFit'
  BY <1>1 DEF FilesFit, Fits
<1> QED
  BY <1>1, <1>2 DEF Turns

LEMMA PortsStay ==
  ASSUME PortsFit, NEW f \in Files, NEW r, Turns(f, r), r.port = file[f].port,
         r.call = "open" => file[f].call = "open", port' = port, net'.peer = net.peer
  PROVE  PortsFit'
<1>1. \A g \in Files : file'[g].port = file[g].port
                       /\ (file'[g].call = "open" => file[g].call = "open")
  BY DEF Turns
<1> QED
  BY <1>1 DEF PortsFit

LEMMA JacksStay ==
  ASSUME JacksFit, NEW f \in Files, NEW r, Turns(f, r),
         hubList \subseteq hubList', UNCHANGED <<used, private>>, net'.peer = net.peer,
         r.pc \in HoldsPc =>
           /\ file[f].pc \in HoldsPc /\ file[f].jack = r.jack
           /\ r.pc \in {"connect", "clear"} <=> file[f].pc \in {"connect", "clear"}
  PROVE  JacksFit'
<1>1. \A g \in Files, j \in HubJacks : Holds(g, j)' =>
        /\ Holds(g, j)
        /\ file'[g].pc \in {"connect", "clear"} <=> file[g].pc \in {"connect", "clear"}
  BY DEF Turns, Holds
<1>2. PeersOK(net)'
  BY DEF JacksFit, PeersOK
<1>3. \A j \in used' : j[1] \in hubList'
  BY DEF JacksFit
<1>4. ASSUME NEW g \in Files, NEW j \in HubJacks, Holds(g, j)'
      PROVE  /\ j \in used'
             /\ j \in private' <=> file'[g].pc \in {"connect", "clear"}
             /\ \A p \in Ports : net'.peer[p] # j
             /\ \A e \in Files : Holds(e, j)' => e = g
  BY <1>1, <1>4 DEF JacksFit
<1> QED
  BY <1>2, <1>3, <1>4 DEF JacksFit

LEMMA HubsStay ==
  ASSUME HubsFit, NEW f \in Files, NEW r, Turns(f, r), UNCHANGED <<hubList, number>>,
         file[f].pc \notin {"add", "kfree"}, r.pc \notin {"add", "kfree"}
  PROVE  HubsFit'
<1>1. \A g \in Files, h \in Hubs : Maker(g, h)' <=> Maker(g, h)
  BY DEF Turns, Maker
<1>2. \A g \in Files : At(g, "add")' => At(g, "add") /\ file'[g] = file[g]
  BY DEF Turns, At
<1>3. /\ \A h \in Hubs : number'[h] # NoNumber <=> h \in hubList' \/ \E g \in Files : Maker(g, h)'
      /\ \A e, g \in Files, h \in Hubs :
           Maker(e, h)' => h \notin hubList' /\ (Maker(g, h)' => g = e)
  BY <1>1 DEF HubsFit
<1>4. \A g \in Files : At(g, "add")' => number'[file'[g].jack[1]] = file'[g].want
  BY <1>2 DEF HubsFit
<1> QED
  BY <1>3, <1>4 DEF HubsFit

\* A jack is used for file f.
LEMMA JackClaimed ==
  ASSUME JacksFit, private \subseteq used, NEW f \in Files, NEW r, Turns(f, r),
         NEW j \in HubJacks \ used,
         used' = used \cup {j}, j[1] \in hubList', hubList \subseteq hubList', private' = private,
         net'.peer = net.peer, file[f].pc \notin HoldsPc, r.pc = "entry", r.jack = j
  PROVE  JacksFit'
<1>1. \A g \in Files, k \in HubJacks :
        Holds(g, k)' <=> IF g = f THEN k = j ELSE Holds(g, k)
  BY DEF Turns, Holds, HoldsPc
<1>2. PeersOK(net)' /\ \A p \in Ports : net.peer[p] # NoJack => net.peer[p] \in private
  BY DEF JacksFit, PeersOK
<1>3. \A k \in used' : k[1] \in hubList'
  BY DEF JacksFit
<1>4. j # NoJack
  BY Jacks
<1>5. ASSUME NEW g \in Files, NEW k \in HubJacks, Holds(g, k)'
      PROVE  /\ k \in used'
             /\ k \in private' <=> file'[g].pc \in {"connect", "clear"}
             /\ \A p \in Ports : net'.peer[p] # k
             /\ \A e \in Files : Holds(e, k)' => e = g
  <2>1. CASE g = f
    <3>1. k = j
      BY <1>1, <1>5, <2>1
    <3>2. \A e \in Files : Holds(e, j) => j \in used
      BY DEF JacksFit
    <3> QED
      BY <1>1, <1>2, <1>4, <2>1, <3>1, <3>2 DEF Turns
  <2>2. CASE g # f
    <3>1. Holds(g, k) /\ file'[g] = file[g]
      BY <1>1, <1>5, <2>2 DEF Turns
    <3>2. k \in used /\ k # j
      BY <3>1 DEF JacksFit
    <3> QED
      BY <1>1, <3>1, <3>2 DEF JacksFit
  <2> QED
    BY <2>1, <2>2
<1> QED
  BY <1>2, <1>3, <1>5 DEF JacksFit

\* The jack of file f becomes private or is not private any more.
LEMMA JackTurns ==
  ASSUME JacksFit, NEW f \in Files, NEW r, Turns(f, r), NEW j \in HubJacks, Holds(f, j),
         UNCHANGED <<hubList, used>>, net'.peer = net.peer,
         private' \ {j} = private \ {j}, j \in private' <=> r.pc \in {"connect", "clear"},
         r.pc \in HoldsPc, r.jack = j
  PROVE  JacksFit'
<1>1. \A g \in Files, k \in HubJacks : Holds(g, k)' <=> Holds(g, k)
  BY DEF Turns, Holds
<1>2. PeersOK(net)'
  BY DEF JacksFit, PeersOK
<1>3. \A k \in used' : k[1] \in hubList'
  BY DEF JacksFit
<1>4. ASSUME NEW g \in Files, NEW k \in HubJacks, Holds(g, k)'
      PROVE  /\ k \in used'
             /\ k \in private' <=> file'[g].pc \in {"connect", "clear"}
             /\ \A p \in Ports : net'.peer[p] # k
             /\ \A e \in Files : Holds(e, k)' => e = g
  <2>1. Holds(g, k) /\ (g = f <=> k = j)
    BY <1>1, <1>4 DEF JacksFit, Holds
  <2>2. k \in private' <=> file'[g].pc \in {"connect", "clear"}
    BY <2>1 DEF JacksFit, Turns
  <2> QED
    BY <1>1, <2>1, <2>2 DEF JacksFit
<1> QED
  BY <1>2, <1>3, <1>4 DEF JacksFit

\* The jack of file f is not used any more.
LEMMA JackGone ==
  ASSUME JacksFit, private \subseteq used, NEW f \in Files, NEW r, Turns(f, r),
         NEW j \in HubJacks, Holds(f, j), file[f].pc \notin {"connect", "clear"},
         used' = used \ {j}, private' = private, net'.peer = net.peer,
         hubList' \subseteq hubList, \A k \in used' : k[1] \in hubList',
         r.pc \notin HoldsPc
  PROVE  JacksFit' /\ private' \subseteq used'
<1>1. \A g \in Files, k \in HubJacks : Holds(g, k)' => Holds(g, k) /\ g # f /\ file'[g] = file[g]
  BY DEF Turns, Holds
<1>2. j \notin private /\ \A g \in Files : Holds(g, j) => g = f
  BY DEF JacksFit
<1>3. PeersOK(net)'
  BY DEF JacksFit, PeersOK
<1>4. ASSUME NEW g \in Files, NEW k \in HubJacks, Holds(g, k)'
      PROVE  /\ k \in used'
             /\ k \in private' <=> file'[g].pc \in {"connect", "clear"}
             /\ \A p \in Ports : net'.peer[p] # k
             /\ \A e \in Files : Holds(e, k)' => e = g
  <2>1. Holds(g, k) /\ g # f /\ file'[g] = file[g]
    BY <1>1, <1>4
  <2>2. k # j
    BY <1>2, <2>1
  <2> QED
    BY <1>1, <2>1, <2>2 DEF JacksFit
<1> QED
  BY <1>2, <1>3, <1>4 DEF JacksFit

AtPc(f, x) == [pc |-> x, call |-> file[f].call, port |-> file[f].port, want |-> file[f].want,
               jack |-> file[f].jack]

LEMMA GotoIs ==
  ASSUME TypeOK, FilesFit, NEW f \in Files, NEW x \in Pcs, Fits(AtPc(f, x)), Goto(f, x)
  PROVE  AtPc(f, x) \in File /\ file' \in [Files -> File] /\ FilesFit' /\ Turns(f, AtPc(f, x))
<1>1. AtPc(f, x) \in File
  BY Typed DEF File, AtPc, Pcs
<1> DEFINE a == [file EXCEPT ![f].pc = x]
<1>2. a \in [Files -> File] /\ Differs(a, file, f, "pc") /\ a[f].pc = x
  BY PcWith DEF TypeOK
<1>3. file' = a
  BY DEF Goto
<1> HIDE DEF a
<1> QED
  BY <1>1, <1>2, <1>3, FieldsStep DEF Differs, AtPc

LEMMA ReadyAgain ==
  \A p : [Closed EXCEPT !.pc = "ready", !.port = p]
           = [pc |-> "ready", call |-> "none", port |-> p, want |-> NoNumber, jack |-> NoJack]
<1> SUFFICES ASSUME NEW p
             PROVE  [Closed EXCEPT !.pc = "ready", !.port = p]
                      = [pc |-> "ready", call |-> "none", port |-> p, want |-> NoNumber,
                         jack |-> NoJack]
  OBVIOUS
<1> DEFINE a == [Closed EXCEPT !.pc = "ready"]
           b == [a EXCEPT !.port = p]
<1>1. a = [pc |-> "ready", call |-> "none", port |-> NoPort, want |-> NoNumber, jack |-> NoJack]
  BY DEF Closed
<1> HIDE DEF a
<1>2. b = [pc |-> "ready", call |-> "none", port |-> p, want |-> NoNumber, jack |-> NoJack]
  BY <1>1
<1>3. [Closed EXCEPT !.pc = "ready", !.port = p] = b
  BY DEF a
<1> QED
  BY <1>2, <1>3

\* A call returns: the file is open, or closed when it has no port.
LEMMA ReturnIs ==
  ASSUME TypeOK, FilesFit, NEW f \in Files, Return(f)
  PROVE  /\ file' \in [Files -> File] /\ FilesFit' /\ ioctl' \in Files \cup {NoFile}
         /\ \E r \in File : /\ Turns(f, r) /\ r.port = file[f].port /\ r.call = "none"
                            /\ r.pc \in {"closed", "ready"}
<1> DEFINE p == file[f].port
           r == IF p = NoPort THEN Closed
                ELSE [pc |-> "ready", call |-> "none", port |-> p, want |-> NoNumber,
                      jack |-> NoJack]
<1>1. file' = [file EXCEPT ![f] = r]
  BY ReadyAgain DEF Return
<1>2. r \in File /\ Fits(r) /\ r.port = p /\ r.call = "none" /\ r.pc \in {"closed", "ready"}
  BY Typed DEF File, Closed, Fits, HoldsPc
<1>3. ioctl' \in Files \cup {NoFile}
  BY DEF Return, TypeOK
<1> HIDE DEF r
<1> QED
  BY <1>1, <1>2, <1>3, FileStep DEF Turns

\* No jack could be had: the file is as before the call.
LEMMA AllocFailsIs ==
  ASSUME TypeOK, FilesFit, PortsFit, NEW f \in Files, file[f].pc \in {"find", "add", "entry"},
         AllocFails(f), net'.peer = net.peer
  PROVE  /\ file' \in [Files -> File] /\ FilesFit' /\ ioctl' \in Files \cup {NoFile}
         /\ PortsFit' /\ Interface' = Interface
         /\ port' \in [Ports -> [open : BOOLEAN, interface : Interfaces \cup {NoInterface}]]
         /\ \E r \in File : /\ Turns(f, r) /\ r.pc \in {"closed", "ready"} /\ r.call = "none"
                            /\ r.port = NoPort \/ (r.port = file[f].port /\ file[f].call = "bind")
<1> DEFINE p == file[f].port
<1>0. file[f].call \in {"open", "bind"} /\ p \in Ports /\ p # NoPort
  BY PortsAssumption DEF FilesFit, Fits
<1>1. CASE file[f].call = "open"
  <2>1. /\ file' = [file EXCEPT ![f] = Closed] /\ port' = [port EXCEPT ![p] = FreePort]
        /\ ioctl' = ioctl
    BY <1>1 DEF AllocFails
  <2>2. Closed \in File /\ Fits(Closed) /\ Closed.port = NoPort /\ Closed.call = "none"
        /\ Closed.pc = "closed"
    BY DEF File, Closed, Fits, HoldsPc
  <2>3. /\ file' \in [Files -> File] /\ FilesFit' /\ Turns(f, Closed)
    BY <2>1, <2>2, FileStep DEF Turns
  <2>4. /\ port' \in [Ports -> [open : BOOLEAN, interface : Interfaces \cup {NoInterface}]]
        /\ port'[p] = FreePort /\ \A q \in Ports : q # p => port'[q] = port[q]
    BY <1>0, <2>1 DEF TypeOK, FreePort
  <2>5. port[p].interface = NoInterface /\ net.peer[p] = NoJack
    BY <1>0, <1>1 DEF PortsFit
  <2>6. Interface' = Interface
    <3>1. \A q \in Ports : port'[q].interface = port[q].interface
      BY <2>4, <2>5 DEF FreePort
    <3> QED
      BY <3>1 DEF Interface
  <2>7. PortsFit'
    <3>1. \A g \in Files : file'[g].port # NoPort =>
            g # f /\ file'[g] = file[g] /\ file[g].port # p /\ file[g].port \in Ports
      BY <1>0, <2>2, <2>3, Typed, ZenonT(120) DEF Turns, PortsFit
    <3>2. \A g \in Files : file'[g].port # NoPort =>
            /\ port'[file'[g].port] = port[file[g].port] /\ file'[g].call = file[g].call
            /\ net'.peer[file'[g].port] = net.peer[file[g].port]
      BY <2>4, <3>1
    <3>3. ASSUME NEW q \in Ports, \A g \in Files : file'[g].port # q
          PROVE  port'[q] = FreePort /\ net'.peer[q] = NoJack
      <4>1. CASE q = p
        BY <2>4, <2>5, <4>1
      <4>2. CASE q # p
        <5>1. \A g \in Files : file[g].port # q
          BY <2>3, <3>3, <4>2 DEF Turns
        <5> QED
          BY <2>4, <4>2, <5>1 DEF PortsFit
      <4> QED
        BY <4>1, <4>2
    <3> QED
      BY <3>1, <3>2, <3>3 DEF PortsFit
  <2>8. ioctl' \in Files \cup {NoFile}
    BY <2>1 DEF TypeOK
  <2>9. \E r \in File : /\ Turns(f, r) /\ r.pc \in {"closed", "ready"} /\ r.call = "none"
                        /\ r.port = NoPort \/ (r.port = file[f].port /\ file[f].call = "bind")
    <3>1. Closed \in File
      BY <2>2
    <3> WITNESS Closed \in File
    <3> QED
      BY <2>2, <2>3
  <2> QED
    BY <2>3, <2>4, <2>6, <2>7, <2>8, <2>9
<1>2. CASE file[f].call = "bind"
  <2> DEFINE r == [pc |-> "ready", call |-> "none", port |-> p, want |-> NoNumber, jack |-> NoJack]
  <2>1. file' = [file EXCEPT ![f] = r] /\ port' = port /\ ioctl' = NoFile
    BY <1>2 DEF AllocFails, Closed
  <2>2. r \in File /\ Fits(r) /\ r.port = p /\ r.call = "none" /\ r.pc = "ready"
    BY <1>0 DEF File, Fits, HoldsPc
  <2> HIDE DEF r
  <2>3. /\ file' \in [Files -> File] /\ FilesFit' /\ Turns(f, r)
    BY <2>1, <2>2, FileStep DEF Turns
  <2>4. PortsFit'
    BY <2>1, <2>2, <2>3, PortsStay
  <2> QED
    BY <1>2, <2>1, <2>2, <2>3, <2>4 DEF TypeOK, Interface
<1> QED
  BY <1>0, <1>1, <1>2

-----------------------------------------------------------------------------
(* The steps that connect nothing *)

LEMMA OpenInv ==
  ASSUME Inv, NEW f \in Files, NEW n \in Numbers, Open(f, n)
  PROVE  Inv'
<1>1. PICK p \in Ports :
        /\ ~port[p].open /\ port' = [port EXCEPT ![p].open = TRUE]
        /\ file' = [file EXCEPT ![f] = [pc |-> "find", call |-> "open", port |-> p, want |-> n,
                                        jack |-> NoJack]]
  BY DEF Open
<1> DEFINE r == [pc |-> "find", call |-> "open", port |-> p, want |-> n, jack |-> NoJack]
<1>2. /\ file[f].pc = "closed" /\ file[f].port = NoPort
      /\ UNCHANGED <<hubList, number, used, private, net, leaked, ioctl>>
  BY DEF Open, At, Inv, FilesFit, Fits, Closed
<1>3. r \in File /\ Fits(r)
  BY DEF File, Fits, HoldsPc
<1>4. /\ file' \in [Files -> File] /\ FilesFit' /\ Turns(f, r)
  BY <1>1, <1>3, FileStep DEF Turns, Inv
<1>5. \A g \in Files : file[g].port # p
  BY <1>1, PortsAssumption DEF Inv, PortsFit
<1>6. port[p] = FreePort /\ net.peer[p] = NoJack
  BY <1>5 DEF Inv, PortsFit
<1>7. /\ port' \in [Ports -> [open : BOOLEAN, interface : Interfaces \cup {NoInterface}]]
      /\ port'[p].open /\ port'[p].interface = NoInterface
      /\ \A q \in Ports : q # p => port'[q] = port[q]
  <2>1. port \in [Ports -> [open : BOOLEAN, interface : Interfaces \cup {NoInterface}]]
    BY DEF Inv, TypeOK
  <2>2. port[p].interface = NoInterface
    BY <1>6 DEF FreePort
  <2> QED
    BY <1>1, <2>1, <2>2
<1>8. Interface' = Interface
  <2>1. \A q \in Ports : port'[q].interface = port[q].interface
    BY <1>6, <1>7 DEF FreePort
  <2> QED
    BY <2>1 DEF Interface
<1>9. PortsFit'
  <2>1. \A g \in Files : file'[g].port = IF g = f THEN p ELSE file[g].port
    BY <1>4 DEF Turns
  <2>2. \A g, e \in Files : file'[g].port = file'[e].port /\ file'[g].port # NoPort => g = e
    BY <1>5, <2>1 DEF Inv, PortsFit
  <2>3. ASSUME NEW g \in Files, file'[g].port # NoPort
        PROVE  /\ port'[file'[g].port].open
               /\ file'[g].call = "open" => /\ port'[file'[g].port].interface = NoInterface
                                            /\ net'.peer[file'[g].port] = NoJack
    <3>1. CASE g = f
      BY <1>2, <1>6, <1>7, <2>1, <3>1
    <3>2. CASE g # f
      <4>1. file'[g] = file[g] /\ file[g].port \in Ports /\ file[g].port # p
        BY <1>4, <1>5, <2>3, <3>2, Typed DEF Turns, Inv
      <4> QED
        BY <1>2, <1>7, <2>3, <4>1 DEF Inv, PortsFit
    <3> QED
      BY <3>1, <3>2
  <2>4. ASSUME NEW q \in Ports, \A g \in Files : file'[g].port # q
        PROVE  port'[q] = FreePort /\ net'.peer[q] = NoJack
    <3>1. q # p
      BY <2>1, <2>4
    <3>2. \A g \in Files : file[g].port # q
      <4>1. q # NoPort
        BY PortsAssumption
      <4> QED
        BY <1>2, <2>1, <2>4, <4>1
    <3> QED
      BY <1>2, <1>7, <3>1, <3>2 DEF Inv, PortsFit
  <2> QED
    BY <2>2, <2>3, <2>4 DEF PortsFit
<1>10. JacksFit'
  BY <1>2, <1>4, JacksStay DEF Inv, HoldsPc
<1>11. HubsFit'
  BY <1>2, <1>4, HubsStay DEF Inv
<1>12. TypeOK'
  BY <1>2, <1>4, <1>7 DEF Inv, TypeOK
<1> QED
  BY <1>2, <1>4, <1>8, <1>9, <1>10, <1>11, <1>12 DEF Inv, NoLoops

\* A call starts, and a jack is set up and taken down.
LEMMA PcInv ==
  ASSUME Inv, NEW f \in Files,
         \/ \E n \in Numbers : Bind(f, n)
         \/ InitJack(f) \/ SetPrivate(f) \/ ClearPrivate(f)
  PROVE  Inv'
<1>1. ASSUME NEW n \in Numbers, Bind(f, n) PROVE Inv'
  <2> DEFINE r == [pc |-> "find", call |-> "bind", port |-> file[f].port, want |-> n,
                   jack |-> file[f].jack]
  <2>1. /\ file[f].pc = "ready" /\ ioctl' = f
        /\ UNCHANGED <<hubList, number, used, private, port, net, leaked>>
    BY <1>1 DEF Bind, MayCall, At
  <2>2. r \in File /\ Fits(r)
    BY <2>1, Typed DEF Inv, FilesFit, File, Fits, HoldsPc
  <2>3. /\ file' \in [Files -> File] /\ \A g \in Files : g # f => file'[g] = file[g]
        /\ file'[f].pc = "find" /\ file'[f].call = "bind" /\ file'[f].want = n
        /\ file'[f].port = file[f].port /\ file'[f].jack = file[f].jack
    <3> DEFINE a == [file EXCEPT ![f].pc = "find"]
               b == [a EXCEPT ![f].call = "bind"]
               c == [b EXCEPT ![f].want = n]
    <3>1. file' = c
      BY <1>1 DEF Bind
    <3>2. a \in [Files -> File] /\ Differs(a, file, f, "pc") /\ a[f].pc = "find"
      BY PcWith DEF Inv, TypeOK, Pcs
    <3> HIDE DEF a
    <3>3. b \in [Files -> File] /\ Differs(b, a, f, "call") /\ b[f].call = "bind"
      BY <3>2, CallWith DEF Calls
    <3> HIDE DEF b
    <3>4. c \in [Files -> File] /\ Differs(c, b, f, "want") /\ c[f].want = n
      BY <3>3, WantWith
    <3> QED
      BY <3>1, <3>2, <3>3, <3>4 DEF Differs
  <2>4. /\ file' \in [Files -> File] /\ FilesFit' /\ Turns(f, r)
    BY <2>2, <2>3, FieldsStep DEF Inv
  <2>5. PortsFit'
    BY <2>1, <2>4, PortsStay DEF Inv
  <2>6. JacksFit'
    BY <2>1, <2>4, JacksStay DEF Inv, HoldsPc
  <2>7. HubsFit'
    BY <2>1, <2>4, HubsStay DEF Inv
  <2>8. TypeOK'
    BY <2>1, <2>4 DEF Inv, TypeOK
  <2> QED
    BY <2>1, <2>4, <2>5, <2>6, <2>7, <2>8 DEF Inv, Interface, NoLoops
<1>2. CASE InitJack(f)
  <2> DEFINE j == file[f].jack
             numPorts == [net.numPorts EXCEPT ![j] = net.totalPorts[j[1]]]
  <2>1. /\ file[f].pc = "entry" /\ Goto(f, "private")
        /\ net' = [net EXCEPT !.numPorts = numPorts]
        /\ UNCHANGED <<hubList, number, used, private, port, leaked, ioctl>>
    BY <1>2 DEF InitJack, At
  <2>2. j \in HubJacks /\ j[1] \in Hubs
    BY <2>1, Jacks DEF Inv, FilesFit, Fits, HoldsPc
  <2>3. numPorts \in [HubJacks -> Int]
    BY <2>2, Typed DEF Inv, Net
  <2> HIDE DEF numPorts
  <2>4. net' \in Net /\ net'.peer = net.peer
    <3>1. net' = [peer |-> net.peer, numPorts |-> numPorts, totalPorts |-> net.totalPorts,
                  promisc |-> net.promisc]
      BY <2>1, Typed DEF Inv, Net
    <3> QED
      BY <2>3, <3>1, Typed DEF Inv, Net
  <2>5. /\ file' \in [Files -> File] /\ FilesFit' /\ Turns(f, AtPc(f, "private"))
    <3>1. Fits(AtPc(f, "private"))
      BY <2>1 DEF Inv, FilesFit, Fits, AtPc, HoldsPc
    <3> QED
      BY <2>1, <3>1, GotoIs DEF Inv, Pcs
  <2>6. PortsFit'
    BY <2>1, <2>4, <2>5, PortsStay DEF Inv, AtPc
  <2>7. JacksFit'
    BY <2>1, <2>4, <2>5, JacksStay DEF Inv, HoldsPc, AtPc
  <2>8. HubsFit'
    BY <2>1, <2>5, HubsStay DEF Inv, AtPc
  <2>9. TypeOK'
    BY <2>1, <2>4, <2>5 DEF Inv, TypeOK
  <2> QED
    BY <2>1, <2>4, <2>5, <2>6, <2>7, <2>8, <2>9 DEF Inv, Interface, NoLoops
<1>3. CASE SetPrivate(f) \/ ClearPrivate(f)
  <2> DEFINE j == file[f].jack
  <2>1. PICK x \in {"connect", "unuse"} :
          /\ x = "connect" => file[f].pc = "private" /\ private' = private \cup {j}
          /\ x = "unuse" => file[f].pc = "clear" /\ private' = private \ {j}
          /\ Goto(f, x) /\ UNCHANGED <<hubList, number, used, port, net, leaked, ioctl>>
    BY <1>3 DEF SetPrivate, ClearPrivate, At
  <2>2. j \in HubJacks /\ Holds(f, j) /\ j \in used
    <3>1. j \in HubJacks /\ Holds(f, j)
      BY <2>1 DEF Inv, FilesFit, Fits, HoldsPc, Holds
    <3> QED
      BY <3>1 DEF Inv, JacksFit
  <2>3. /\ file' \in [Files -> File] /\ FilesFit' /\ Turns(f, AtPc(f, x))
    <3>1. Fits(AtPc(f, x))
      BY <2>1 DEF Inv, FilesFit, Fits, AtPc, HoldsPc
    <3> QED
      BY <2>1, <3>1, GotoIs DEF Inv, Pcs
  <2>4. PortsFit'
    BY <2>1, <2>3, PortsStay DEF Inv, AtPc
  <2>5. JacksFit'
    BY <2>1, <2>2, <2>3, JackTurns DEF Inv, AtPc, HoldsPc
  <2>6. HubsFit'
    BY <2>1, <2>3, HubsStay DEF Inv, AtPc
  <2>7. TypeOK'
    BY <2>1, <2>2, <2>3 DEF Inv, TypeOK
  <2> QED
    BY <2>1, <2>3, <2>4, <2>5, <2>6, <2>7 DEF Inv, Interface, NoLoops
<1> QED
  BY <1>1, <1>2, <1>3

\* A jack of a listed hub is claimed, or there is none.
LEMMA ClaimIs ==
  ASSUME TypeOK, FilesFit, PortsFit, JacksFit, NEW f \in Files, file[f].pc \in {"find", "add"},
         NEW h \in Hubs, h \in hubList', hubList \subseteq hubList', ClaimJack(f, h),
         private' = private, net'.peer = net.peer
  PROVE  /\ file' \in [Files -> File] /\ FilesFit' /\ PortsFit' /\ JacksFit'
         /\ ioctl' \in Files \cup {NoFile} /\ Interface' = Interface
         /\ port' \in [Ports -> [open : BOOLEAN, interface : Interfaces \cup {NoInterface}]]
         /\ used' \subseteq HubJacks /\ private' \subseteq used'
         /\ \E r \in File : Turns(f, r) /\ r.pc \in {"entry", "closed", "ready"}
<1>0. /\ used \subseteq HubJacks /\ private \subseteq used /\ file \in [Files -> File]
      /\ file[f].port \in Ports /\ file[f].call \in {"open", "bind"} /\ file[f].want \in Numbers
  BY DEF TypeOK, FilesFit, Fits
<1>1. ASSUME NEW i \in 1..JackCount, <<h, i>> \notin used, used' = used \cup {<<h, i>>},
             file' = [file EXCEPT ![f].jack = <<h, i>>, ![f].pc = "entry"],
             UNCHANGED <<port, ioctl>>
      PROVE  /\ file' \in [Files -> File] /\ FilesFit' /\ PortsFit' /\ JacksFit'
             /\ used' \subseteq HubJacks /\ private' \subseteq used'
             /\ \E r \in File : Turns(f, r) /\ r.pc = "entry"
  <2> DEFINE j == <<h, i>>
             r == [pc |-> "entry", call |-> file[f].call, port |-> file[f].port,
                   want |-> file[f].want, jack |-> j]
             a == [file EXCEPT ![f].jack = j]
             b == [a EXCEPT ![f].pc = "entry"]
  <2>1. j \in HubJacks \ used /\ j[1] = h
    BY <1>1 DEF HubJacks
  <2> HIDE DEF j
  <2>2. r \in File /\ Fits(r) /\ r.pc = "entry" /\ r.port = file[f].port
        /\ r.call = file[f].call /\ r.jack = j /\ r.want = file[f].want
    BY <1>0, <2>1 DEF File, Fits, HoldsPc
  <2> HIDE DEF r
  <2>3. file' = b
    BY <1>1 DEF j
  <2>4. a \in [Files -> File] /\ Differs(a, file, f, "jack") /\ a[f].jack = j
    <3>1. j \in HubJacks \cup (Hubs \X {0}) \cup {NoJack}
      BY <2>1
    <3> QED
      BY <1>0, <3>1, JackWith, ZenonT(120)
  <2> HIDE DEF a
  <2>5. b \in [Files -> File] /\ Differs(b, a, f, "pc") /\ b[f].pc = "entry"
    BY <2>4, PcWith DEF Pcs
  <2> HIDE DEF b
  <2>6. file' \in [Files -> File] /\ FilesFit' /\ Turns(f, r)
    BY <2>2, <2>3, <2>4, <2>5, FieldsStep DEF Differs
  <2>7. PortsFit'
    BY <1>1, <2>2, <2>6, PortsStay
  <2>8. JacksFit'
    <3>1. used' = used \cup {j} /\ j[1] \in hubList' /\ file[f].pc \notin HoldsPc
      BY <1>1, <2>1 DEF j, HoldsPc
    <3> QED
      BY <1>0, <2>1, <2>2, <2>6, <3>1, JackClaimed
  <2> QED
    BY <1>0, <1>1, <2>1, <2>2, <2>6, <2>7, <2>8 DEF j
<1>2. ASSUME AllocFails(f), used' = used
      PROVE  /\ file' \in [Files -> File] /\ FilesFit' /\ PortsFit' /\ JacksFit'
             /\ ioctl' \in Files \cup {NoFile} /\ Interface' = Interface
             /\ port' \in [Ports -> [open : BOOLEAN, interface : Interfaces \cup {NoInterface}]]
             /\ \E r \in File : Turns(f, r) /\ r.pc \in {"closed", "ready"}
  <2>1. /\ file' \in [Files -> File] /\ FilesFit' /\ PortsFit'
        /\ ioctl' \in Files \cup {NoFile} /\ Interface' = Interface
        /\ port' \in [Ports -> [open : BOOLEAN, interface : Interfaces \cup {NoInterface}]]
        /\ \E r \in File : Turns(f, r) /\ r.pc \in {"closed", "ready"}
    BY <1>2, AllocFailsIs
  <2>2. JacksFit'
    BY <1>2, <2>1, JacksStay DEF HoldsPc
  <2> QED
    BY <2>1, <2>2
<1>3. CASE \E i \in 1..JackCount :
             /\ <<h, i>> \notin used /\ used' = used \cup {<<h, i>>}
             /\ file' = [file EXCEPT ![f].jack = <<h, i>>, ![f].pc = "entry"]
             /\ UNCHANGED <<port, ioctl>>
  BY <1>1, <1>3 DEF TypeOK, Interface
<1>4. CASE AllocFails(f) /\ used' = used
  BY <1>0, <1>2, <1>4
<1> QED
  BY <1>3, <1>4 DEF ClaimJack

\* The memory of a hub that file f makes or frees is free.
LEMMA HubFreed ==
  ASSUME TypeOK, HubsFit, NEW f \in Files, NEW r, Turns(f, r), NEW h \in Hubs, Maker(f, h),
         hubList' = hubList, number' = [number EXCEPT ![h] = NoNumber],
         r.pc \notin {"add", "kfree"}
  PROVE  HubsFit' /\ number' \in [Hubs -> Numbers \cup {NoNumber}]
         /\ \A g \in hubList : number'[g] = number[g]
<1>1. /\ number' \in [Hubs -> Numbers \cup {NoNumber}] /\ number'[h] = NoNumber
      /\ \A g \in Hubs : g # h => number'[g] = number[g]
  BY DEF TypeOK
<1>2. h \notin hubList /\ \A g \in Files : Maker(g, h) => g = f
  BY DEF HubsFit
<1>3. \A g \in Files, k \in Hubs : Maker(g, k)' <=> Maker(g, k) /\ g # f
  BY DEF Turns, Maker
<1>4. \A k \in Hubs : k # h => ~Maker(f, k)
  BY DEF Maker
<1>5. \A k \in Hubs : number'[k] # NoNumber <=> k \in hubList' \/ \E g \in Files : Maker(g, k)'
  BY <1>1, <1>2, <1>3, <1>4 DEF HubsFit
<1>6. \A e, g \in Files, k \in Hubs : Maker(e, k)' => k \notin hubList' /\ (Maker(g, k)' => g = e)
  BY <1>3 DEF HubsFit
<1>7. \A g \in hubList : number'[g] = number[g]
  BY <1>1, <1>2 DEF TypeOK
<1>8. ASSUME NEW g \in Files, At(g, "add")' PROVE number'[file'[g].jack[1]] = file'[g].want
  <2>1. g # f /\ file'[g] = file[g] /\ At(g, "add")
    BY <1>8 DEF Turns, At
  <2>2. number[file[g].jack[1]] = file[g].want /\ Maker(g, file[g].jack[1])
    BY <2>1 DEF HubsFit, Maker, At
  <2>3. file[g].jack[1] # h
    BY <1>2, <2>1, <2>2
  <2>4. number' = [k \in Hubs |-> IF k = h THEN NoNumber ELSE number[k]]
    BY DEF TypeOK
  <2>5. file'[g].jack[1] = file[g].jack[1]
    BY <2>1
  <2> QED
    BY <2>1, <2>2, <2>3, <2>4
<1>9. \A e, g \in hubList' : number'[e] = number'[g] => g = e
  BY <1>7 DEF HubsFit
<1> QED
  BY <1>1, <1>5, <1>6, <1>7, <1>8, <1>9 DEF HubsFit

\* FindHub, AddHub and EntryFails: a hub is found or made, and a jack is claimed.
LEMMA FindHubInv ==
  ASSUME Inv, NEW f \in Files, FindHub(f)
  PROVE  Inv'
<1>0. /\ file[f].pc = "find" /\ UNCHANGED <<hubList, private, net, leaked>>
      /\ file[f].port \in Ports /\ file[f].call \in {"open", "bind"} /\ file[f].want \in Numbers
      /\ hubList \subseteq Hubs
  BY DEF FindHub, At, Inv, FilesFit, Fits, TypeOK
<1>1. ASSUME NEW h \in Listed(file[f].want), ClaimJack(f, h), UNCHANGED number
      PROVE  Inv'
  <2>1. h \in Hubs /\ h \in hubList'
    BY <1>0 DEF Listed
  <2>2. /\ file' \in [Files -> File] /\ FilesFit' /\ PortsFit' /\ JacksFit'
        /\ ioctl' \in Files \cup {NoFile} /\ Interface' = Interface
        /\ port' \in [Ports -> [open : BOOLEAN, interface : Interfaces \cup {NoInterface}]]
        /\ used' \subseteq HubJacks /\ private' \subseteq used'
        /\ \E r \in File : Turns(f, r) /\ r.pc \in {"entry", "closed", "ready"}
    BY <1>0, <1>1, <2>1, ClaimIs DEF Inv
  <2>3. HubsFit'
    BY <1>0, <1>1, <2>2, HubsStay DEF Inv
  <2>4. TypeOK'
    BY <1>0, <1>1, <2>2 DEF Inv, TypeOK
  <2> QED
    BY <1>0, <2>2, <2>3, <2>4 DEF Inv, NoLoops
<1>2. ASSUME NEW h \in Hubs, Listed(file[f].want) = {}, number[h] = NoNumber,
             number' = [number EXCEPT ![h] = file[f].want],
             file' = [file EXCEPT ![f].jack = <<h, 0>>, ![f].pc = "add"],
             UNCHANGED <<used, port, ioctl>>
      PROVE  Inv'
  <2> DEFINE j == <<h, 0>>
             want == file[f].want
             r == [pc |-> "add", call |-> file[f].call, port |-> file[f].port,
                   want |-> want, jack |-> j]
             a == [file EXCEPT ![f].jack = j]
             b == [a EXCEPT ![f].pc = "add"]
  <2>1. j \in Hubs \X {0} /\ j[1] = h /\ j \in HubJacks \cup (Hubs \X {0}) \cup {NoJack}
    OBVIOUS
  <2> HIDE DEF j
  <2>2. r \in File /\ Fits(r) /\ r.pc = "add" /\ r.port = file[f].port
        /\ r.call = file[f].call /\ r.jack = j /\ r.want = want
    BY <1>0, <2>1 DEF File, Fits, HoldsPc
  <2> HIDE DEF r
  <2>3. file' = b
    BY <1>2 DEF j
  <2>4. a \in [Files -> File] /\ Differs(a, file, f, "jack") /\ a[f].jack = j
    BY <2>1, JackWith, ZenonT(60) DEF Inv, TypeOK
  <2> HIDE DEF a
  <2>5. b \in [Files -> File] /\ Differs(b, a, f, "pc") /\ b[f].pc = "add"
    BY <2>4, PcWith DEF Pcs
  <2> HIDE DEF b
  <2>6. file' \in [Files -> File] /\ FilesFit' /\ Turns(f, r)
    BY <2>2, <2>3, <2>4, <2>5, FieldsStep DEF Differs, Inv
  <2>7. PortsFit'
    BY <1>0, <1>2, <2>2, <2>6, PortsStay DEF Inv
  <2>8. JacksFit'
    BY <1>0, <1>2, <2>2, <2>6, JacksStay DEF Inv, HoldsPc
  <2>9. /\ number' \in [Hubs -> Numbers \cup {NoNumber}] /\ number'[h] = want
        /\ \A g \in Hubs : g # h => number'[g] = number[g]
        /\ want # NoNumber
    BY <1>0, <1>2, PortsAssumption DEF Inv, TypeOK
  <2>10. HubsFit'
    <3>1. h \notin hubList /\ \A g \in Files : ~Maker(g, h)
      BY <1>2 DEF Inv, HubsFit
    <3>2. \A g \in Files, k \in Hubs : Maker(g, k)' <=> Maker(g, k) \/ (g = f /\ k = h)
      BY <1>0, <2>1, <2>2, <2>6 DEF Turns, Maker
    <3>3. \A k \in Hubs : number'[k] # NoNumber <=> k \in hubList' \/ \E g \in Files : Maker(g, k)'
      BY <1>0, <2>9, <3>1, <3>2 DEF Inv, HubsFit
    <3>4. \A e, g \in Files, k \in Hubs :
            Maker(e, k)' => k \notin hubList' /\ (Maker(g, k)' => g = e)
      <4> SUFFICES ASSUME NEW e \in Files, NEW g \in Files, NEW k \in Hubs, Maker(e, k)'
                   PROVE  k \notin hubList' /\ (Maker(g, k)' => g = e)
        OBVIOUS
      <4>1. CASE k = h
        BY <1>0, <3>1, <3>2, <4>1
      <4>2. CASE k # h
        <5>1. Maker(e, k) /\ (Maker(g, k)' => Maker(g, k))
          BY <3>2, <4>2
        <5> QED
          BY <1>0, <5>1 DEF Inv, HubsFit
      <4> QED
        BY <4>1, <4>2
    <3>5. ASSUME NEW g \in Files, At(g, "add")' PROVE number'[file'[g].jack[1]] = file'[g].want
      <4>1. CASE g = f
        BY <2>1, <2>2, <2>6, <2>9, <4>1 DEF Turns
      <4>2. CASE g # f
        <5>1. file'[g] = file[g] /\ At(g, "add")
          BY <2>6, <3>5, <4>2 DEF Turns, At
        <5>2. number[file[g].jack[1]] = file[g].want /\ file[g].jack[1] \in Hubs
          BY <5>1 DEF Inv, HubsFit, FilesFit, Fits, At
        <5>3. file[g].jack[1] # h
          BY <3>1, <5>1 DEF Maker, At
        <5> QED
          BY <2>9, <5>1, <5>2, <5>3
      <4> QED
        BY <4>1, <4>2
    <3>6. \A e, g \in hubList' : number'[e] = number'[g] => g = e
      BY <1>0, <2>9, <3>1 DEF Inv, HubsFit
    <3> QED
      BY <3>3, <3>4, <3>5, <3>6 DEF HubsFit
  <2>11. TypeOK'
    BY <1>0, <1>2, <2>6, <2>9 DEF Inv, TypeOK
  <2> QED
    BY <1>0, <1>2, <2>6, <2>7, <2>8, <2>10, <2>11 DEF Inv, Interface, NoLoops
<1> QED
  BY <1>1, <1>2 DEF FindHub

LEMMA AddHubInv ==
  ASSUME Inv, NEW f \in Files, AddHub(f)
  PROVE  Inv'
<1> DEFINE own == file[f].jack[1]
           found == Listed(file[f].want)
<1>0. /\ file[f].pc = "add" /\ private' = private
      /\ file[f].want \in Numbers /\ file[f].jack \in Hubs \X {0}
      /\ hubList \subseteq Hubs
  BY DEF AddHub, At, Inv, FilesFit, Fits, TypeOK
<1>1. own \in Hubs /\ Maker(f, own) /\ number[own] = file[f].want
  BY <1>0 DEF Maker, Inv, HubsFit, At
<1>2. own \notin hubList /\ \A g \in Files : Maker(g, own) => g = f
  BY <1>1 DEF Inv, HubsFit
<1> HIDE DEF own, found
<1>3. ASSUME NEW h \in found, number' = [number EXCEPT ![own] = NoNumber], leaked' = TRUE,
             ClaimJack(f, h), UNCHANGED <<hubList, net>>
      PROVE  Inv'
  <2>1. h \in Hubs /\ h \in hubList'
    BY <1>0, <1>3 DEF Listed, found
  <2>2. /\ file' \in [Files -> File] /\ FilesFit' /\ PortsFit' /\ JacksFit'
        /\ ioctl' \in Files \cup {NoFile} /\ Interface' = Interface
        /\ port' \in [Ports -> [open : BOOLEAN, interface : Interfaces \cup {NoInterface}]]
        /\ used' \subseteq HubJacks /\ private' \subseteq used'
        /\ \E r \in File : Turns(f, r) /\ r.pc \in {"entry", "closed", "ready"}
    BY <1>0, <1>3, <2>1, ClaimIs DEF Inv
  <2>3. HubsFit' /\ number' \in [Hubs -> Numbers \cup {NoNumber}]
    BY <1>1, <1>3, <2>2, HubFreed DEF Inv
  <2>4. TypeOK'
    BY <1>0, <1>3, <2>2, <2>3 DEF Inv, TypeOK
  <2> QED
    BY <1>3, <2>2, <2>3, <2>4 DEF Inv, NoLoops
<1>4. ASSUME found = {}, hubList' = hubList \cup {own}, net' = [net EXCEPT !.totalPorts[own] = 0],
             ClaimJack(f, own), UNCHANGED <<number, leaked>>
      PROVE  Inv'
  <2>1. net' \in Net /\ net'.peer = net.peer
    <3> DEFINE totalPorts == [net.totalPorts EXCEPT ![own] = 0]
    <3>1. totalPorts \in [Hubs -> Nat]
      BY Typed DEF Inv, Net
    <3>2. net' = [net EXCEPT !.totalPorts = totalPorts]
      BY <1>4
    <3> HIDE DEF totalPorts
    <3>3. net' = [peer |-> net.peer, numPorts |-> net.numPorts, totalPorts |-> totalPorts,
                  promisc |-> net.promisc]
      BY <3>2, Typed DEF Inv, Net
    <3> QED
      BY <3>1, <3>3, Typed DEF Inv, Net
  <2>2. /\ file' \in [Files -> File] /\ FilesFit' /\ PortsFit' /\ JacksFit'
        /\ ioctl' \in Files \cup {NoFile} /\ Interface' = Interface
        /\ port' \in [Ports -> [open : BOOLEAN, interface : Interfaces \cup {NoInterface}]]
        /\ used' \subseteq HubJacks /\ private' \subseteq used'
        /\ \E r \in File : Turns(f, r) /\ r.pc \in {"entry", "closed", "ready"}
    BY <1>0, <1>1, <1>4, <2>1, ClaimIs DEF Inv
  <2>3. HubsFit'
    <3>1. \A g \in Files, k \in Hubs : Maker(g, k)' <=> Maker(g, k) /\ g # f
      BY <2>2 DEF Turns, Maker
    <3>2. \A k \in Hubs : Maker(f, k) => k = own
      BY DEF Maker, own
    <3>3. \A k \in Hubs : number'[k] # NoNumber <=> k \in hubList' \/ \E g \in Files : Maker(g, k)'
      BY <1>1, <1>2, <1>4, <3>1, <3>2 DEF Inv, HubsFit
    <3>4. \A e, g \in Files, k \in Hubs :
            Maker(e, k)' => k \notin hubList' /\ (Maker(g, k)' => g = e)
      BY <1>2, <1>4, <3>1 DEF Inv, HubsFit
    <3>5. ASSUME NEW g \in Files, At(g, "add")' PROVE number'[file'[g].jack[1]] = file'[g].want
      <4>1. file'[g] = file[g] /\ At(g, "add")
        BY <2>2, <3>5 DEF Turns, At
      <4> QED
        BY <1>4, <4>1 DEF Inv, HubsFit
    <3>6. \A k \in hubList : number[k] # number[own]
      BY <1>1, <1>4 DEF found, Listed
    <3>7. \A e, g \in hubList' : number'[e] = number'[g] => g = e
      BY <1>4, <3>6 DEF Inv, HubsFit
    <3> QED
      BY <3>3, <3>4, <3>5, <3>7 DEF HubsFit
  <2>4. TypeOK'
    BY <1>0, <1>1, <1>4, <2>1, <2>2 DEF Inv, TypeOK
  <2> QED
    BY <2>1, <2>2, <2>3, <2>4 DEF Inv, NoLoops
<1> QED
  BY <1>3, <1>4 DEF AddHub, own, found

LEMMA EntryFailsInv ==
  ASSUME Inv, NEW f \in Files, EntryFails(f)
  PROVE  Inv'
<1> DEFINE j == file[f].jack
<1>1. /\ file[f].pc = "entry" /\ used' = used \ {j} /\ AllocFails(f)
      /\ UNCHANGED <<hubList, number, private, net, leaked>>
  BY DEF EntryFails, At
<1>2. j \in HubJacks /\ Holds(f, j)
  BY <1>1 DEF Inv, FilesFit, Fits, HoldsPc, Holds
<1>3. /\ file' \in [Files -> File] /\ FilesFit' /\ ioctl' \in Files \cup {NoFile}
      /\ PortsFit' /\ Interface' = Interface
      /\ port' \in [Ports -> [open : BOOLEAN, interface : Interfaces \cup {NoInterface}]]
      /\ \E r \in File : Turns(f, r) /\ r.pc \in {"closed", "ready"}
  BY <1>1, AllocFailsIs DEF Inv
<1>4. JacksFit' /\ private' \subseteq used'
  <2>1. private \subseteq used /\ \A k \in used' : k[1] \in hubList'
    BY <1>1 DEF Inv, TypeOK, JacksFit
  <2> QED
    BY <1>1, <1>2, <1>3, <2>1, JackGone DEF Inv, HoldsPc
<1>5. HubsFit'
  BY <1>1, <1>3, HubsStay DEF Inv
<1>6. TypeOK'
  BY <1>1, <1>3, <1>4 DEF Inv, TypeOK
<1> QED
  BY <1>1, <1>3, <1>4, <1>5, <1>6 DEF Inv, NoLoops

\* The last jack takes its hub off the list, and then its memory goes.
LEMMA UnuseJackInv ==
  ASSUME Inv, NEW f \in Files, UnuseJack(f)
  PROVE  Inv'
<1> DEFINE j == file[f].jack
           h == j[1]
           others == (JacksOf(h) \cap used) \ {j}
<1>1. /\ file[f].pc = "unuse" /\ used' = used \ {j}
      /\ UNCHANGED <<number, private, port, net, leaked>>
  BY DEF UnuseJack, At
<1>2. j \in HubJacks /\ Holds(f, j) /\ j \in used /\ h \in Hubs /\ h \in hubList
  <2>1. j \in HubJacks /\ Holds(f, j)
    BY <1>1 DEF Inv, FilesFit, Fits, HoldsPc, Holds
  <2> QED
    BY <2>1, Jacks DEF Inv, JacksFit
<1>3. CASE Return(f) /\ UNCHANGED hubList
  <2>1. /\ file' \in [Files -> File] /\ FilesFit' /\ ioctl' \in Files \cup {NoFile}
    BY <1>3, ReturnIs DEF Inv
  <2>2. PICK r \in File : /\ Turns(f, r) /\ r.port = file[f].port /\ r.call = "none"
                          /\ r.pc \in {"closed", "ready"}
    BY <1>3, ReturnIs DEF Inv
  <2>3. PortsFit'
    BY <1>1, <2>2, PortsStay DEF Inv
  <2>4. JacksFit' /\ private' \subseteq used'
    <3>1. private \subseteq used /\ \A k \in used' : k[1] \in hubList'
      BY <1>1, <1>3 DEF Inv, TypeOK, JacksFit
    <3> QED
      BY <1>1, <1>2, <1>3, <2>2, <3>1, JackGone DEF Inv, HoldsPc
  <2>5. HubsFit'
    BY <1>1, <1>3, <2>2, HubsStay DEF Inv
  <2>6. TypeOK'
    BY <1>1, <1>3, <2>1, <2>4 DEF Inv, TypeOK
  <2> QED
    BY <1>1, <2>1, <2>3, <2>4, <2>5, <2>6 DEF Inv, Interface, NoLoops
<1>4. CASE others = {} /\ hubList' = hubList \ {h} /\ Goto(f, "kfree") /\ UNCHANGED ioctl
  <2> DEFINE r == AtPc(f, "kfree")
  <2>1. Fits(r)
    BY <1>1 DEF Inv, FilesFit, Fits, AtPc, HoldsPc
  <2>2. r \in File /\ file' \in [Files -> File] /\ FilesFit' /\ Turns(f, r)
    BY <1>4, <2>1, GotoIs DEF Inv, Pcs
  <2>3. r.pc = "kfree" /\ r.jack = j /\ r.port = file[f].port /\ r.call = file[f].call
    BY DEF AtPc
  <2> HIDE DEF r
  <2>4. PortsFit'
    BY <1>1, <2>2, <2>3, PortsStay DEF Inv
  <2>5. JacksFit' /\ private' \subseteq used'
    <3>1. private \subseteq used
      BY DEF Inv, TypeOK
    <3>2. ASSUME NEW k \in used' PROVE k[1] \in hubList'
      <4>1. k \in HubJacks /\ k \in used /\ k # j /\ k[1] \in hubList
        BY <1>1, <3>2 DEF Inv, TypeOK, JacksFit
      <4>2. k \in JacksOf(k[1])
        BY <4>1, Jacks
      <4> QED
        BY <1>4, <4>1, <4>2
    <3> QED
      BY <1>1, <1>2, <1>4, <2>2, <2>3, <3>1, <3>2, JackGone DEF Inv, HoldsPc
  <2>6. HubsFit'
    <3>1. \A g \in Files : ~Maker(g, h)
      BY <1>2 DEF Inv, HubsFit
    <3>2. \A g \in Files, k \in Hubs : Maker(g, k)' <=> Maker(g, k) \/ (g = f /\ k = h)
      BY <1>1, <2>2, <2>3 DEF Turns, Maker
    <3>3. \A k \in Hubs : number'[k] # NoNumber <=> k \in hubList' \/ \E g \in Files : Maker(g, k)'
      BY <1>1, <1>2, <1>4, <3>1, <3>2 DEF Inv, HubsFit
    <3>4. \A e, g \in Files, k \in Hubs :
            Maker(e, k)' => k \notin hubList' /\ (Maker(g, k)' => g = e)
      <4> SUFFICES ASSUME NEW e \in Files, NEW g \in Files, NEW k \in Hubs, Maker(e, k)'
                   PROVE  k \notin hubList' /\ (Maker(g, k)' => g = e)
        OBVIOUS
      <4>1. CASE k = h
        BY <1>4, <3>1, <3>2, <4>1
      <4>2. CASE k # h
        <5>1. Maker(e, k) /\ (Maker(g, k)' => Maker(g, k))
          BY <3>2, <4>2
        <5> QED
          BY <1>4, <5>1 DEF Inv, HubsFit
      <4> QED
        BY <4>1, <4>2
    <3>5. ASSUME NEW g \in Files, At(g, "add")' PROVE number'[file'[g].jack[1]] = file'[g].want
      <4>1. file'[g] = file[g] /\ At(g, "add")
        BY <2>2, <2>3, <3>5 DEF Turns, At
      <4> QED
        BY <1>1, <4>1 DEF Inv, HubsFit
    <3>6. \A e, g \in hubList' : number'[e] = number'[g] => g = e
      BY <1>1, <1>4 DEF Inv, HubsFit
    <3> QED
      BY <3>3, <3>4, <3>5, <3>6 DEF HubsFit
  <2>7. TypeOK'
    BY <1>1, <1>4, <2>2, <2>5 DEF Inv, TypeOK
  <2> QED
    BY <1>1, <2>2, <2>4, <2>5, <2>6, <2>7 DEF Inv, Interface, NoLoops
<1> QED
  BY <1>3, <1>4 DEF UnuseJack

LEMMA FreeHubInv ==
  ASSUME Inv, NEW f \in Files, FreeHub(f)
  PROVE  Inv'
<1> DEFINE h == file[f].jack[1]
<1>1. /\ file[f].pc = "kfree" /\ number' = [number EXCEPT ![h] = NoNumber] /\ Return(f)
      /\ UNCHANGED <<hubList, used, private, port, net, leaked>>
  BY DEF FreeHub, At
<1>2. h \in Hubs /\ Maker(f, h)
  BY <1>1, Jacks DEF Inv, FilesFit, Fits, HoldsPc, Maker
<1> HIDE DEF h
<1>3. /\ file' \in [Files -> File] /\ FilesFit' /\ ioctl' \in Files \cup {NoFile}
  BY <1>1, ReturnIs DEF Inv
<1>4. PICK r \in File : /\ Turns(f, r) /\ r.port = file[f].port /\ r.call = "none"
                        /\ r.pc \in {"closed", "ready"}
  BY <1>1, ReturnIs DEF Inv
<1>5. PortsFit'
  BY <1>1, <1>4, PortsStay DEF Inv
<1>6. JacksFit'
  BY <1>1, <1>4, JacksStay DEF Inv, HoldsPc
<1>7. HubsFit' /\ number' \in [Hubs -> Numbers \cup {NoNumber}]
  BY <1>1, <1>2, <1>4, HubFreed DEF Inv
<1>8. TypeOK'
  BY <1>1, <1>3, <1>7 DEF Inv, TypeOK
<1> QED
  BY <1>1, <1>3, <1>5, <1>6, <1>7, <1>8 DEF Inv, Interface, NoLoops

-----------------------------------------------------------------------------
(* The steps that connect *)

\* A net in which the jacks of ports are their own and no interface is twice on a
\* hub, and one in which the numbers are right as well.
NetFits(n) == n \in Net /\ PeersOK(n) /\ NoLoops(n, Interface)
Right(n) == CountsOK(n, private, hubList) /\ PromiscOK(n, Bridges)

LEMMA NetFitsIs ==
  ASSUME Inv
  PROVE  NetFits(net) /\ private \subseteq HubJacks /\ hubList \subseteq Hubs
  BY Typed DEF Inv, NetFits, JacksFit

\* A port is taken off its jack.
LEMMA Apart ==
  ASSUME Inv, NEW p \in Ports, net.peer[p] # NoJack
  PROVE  LET m == Disconnected(net, p)
         IN  /\ NetFits(m) /\ m.peer = [net.peer EXCEPT ![p] = NoJack]
             /\ Right(net) => Right(m)
<1> DEFINE m == Disconnected(net, p)
<1>1. /\ m \in Net /\ m.peer = [net.peer EXCEPT ![p] = NoJack] /\ PeersOK(m)
      /\ CountsOK(net, private, hubList) =>
           /\ CountsOK(m, private, hubList)
           /\ PromiscOK(net, Bridges) => PromiscOK(m, Bridges)
  BY NetFitsIs, DisconnectedIs DEF NetFits
<1> HIDE DEF m
<1>2. \A q \in Ports : m.peer[q] = IF q = p THEN NoJack ELSE net.peer[q]
  BY <1>1, NetFitsIs DEF NetFits, Net
<1>3. NoLoops(m, Interface)
  BY <1>2 DEF NoLoops, Inv
<1> QED
  BY <1>1, <1>3 DEF NetFits, Right, m

\* What VNetCycleDetect says when it finds no cycle.
LEMMA NoCycle ==
  ASSUME NEW n, NEW i, NEW j, NEW cycle \in Cycles(n, i, j), ~cycle, PeersOK(n),
         NEW q \in Ports, n.peer[q] # NoJack, n.peer[q] # j, n.peer[q] \in JacksOf(j[1]),
         IsBridge(q)
  PROVE  port[q].interface # i
<1>1. q \in Neighbours(n, j)
  BY DEF Neighbours, PeersOK
<1> QED
  BY <1>1 DEF Cycles

\* Where no interface would be twice, and memory is not short, no cycle is found.
LEMMA NoFalseCycle ==
  ASSUME ~AllocMayFail, NEW n, NEW i, NEW j,
         \A q, r \in Neighbours(n, j) :
           /\ IsBridge(q) => port[q].interface # i
           /\ IsBridge(q) /\ IsBridge(r) /\ q # r => port[q].interface # port[r].interface
  PROVE  \A cycle \in Cycles(n, i, j) : ~cycle
<1>1. Cycles(n, i, j) = {FALSE}
  BY DEF Cycles
<1> QED
  BY <1>1

\* A port with or without an interface is put on a jack that nobody is at.
LEMMA JoinedWith ==
  ASSUME NEW n, NetFits(n), private \subseteq HubJacks, hubList \subseteq Hubs,
         NEW p \in Ports, n.peer[p] = NoJack, NEW j \in private, \A q \in Ports : n.peer[q] # j,
         NEW i, NEW cycle \in Cycles(n, i, j), ~cycle,
         NEW bridge \in BOOLEAN, bridge <=> i # NoInterface
  PROVE  LET m == Connected(n, p, bridge, j)
         IN  /\ m \in Net /\ m.peer = [n.peer EXCEPT ![p] = j] /\ PeersOK(m)
             /\ \A I : I[p] = i /\ (\A q \in Ports : q # p => I[q] = Interface[q]) => NoLoops(m, I)
             /\ CountsOK(n, private, hubList) =>
                  /\ CountsOK(m, private, hubList)
                  /\ PromiscOK(n, Bridges) =>
                       PromiscOK(m, IF bridge THEN Bridges \cup {p} ELSE Bridges \ {p})
<1> DEFINE m == Connected(n, p, bridge, j)
<1>1. /\ m \in Net /\ m.peer = [n.peer EXCEPT ![p] = j] /\ PeersOK(m)
      /\ CountsOK(n, private, hubList) =>
           /\ CountsOK(m, private, hubList)
           /\ PromiscOK(n, Bridges) =>
                PromiscOK(m, IF bridge THEN Bridges \cup {p} ELSE Bridges \ {p})
  <2>1. n \in Net /\ PeersOK(n)
    BY DEF NetFits
  <2> HIDE DEF m
  <2> QED
    BY <2>1, ConnectedIs DEF m
<1> HIDE DEF m
<1>2. \A q \in Ports : m.peer[q] = IF q = p THEN j ELSE n.peer[q]
  BY <1>1 DEF NetFits, Net
<1>3. ASSUME NEW q \in Ports, q # p, n.peer[q] # NoJack, n.peer[q][1] = j[1]
      PROVE  Interface[q] = NoInterface \/ Interface[q] # i
  <2>1. n.peer[q] \in HubJacks /\ n.peer[q] \in JacksOf(j[1])
    BY <1>3, Jacks DEF NetFits, Net
  <2>2. IsBridge(q) => port[q].interface # i
    BY <1>3, <2>1, NoCycle DEF NetFits
  <2> QED
    BY <2>2 DEF Interface, IsBridge
<1>4. ASSUME NEW I, I[p] = i, \A q \in Ports : q # p => I[q] = Interface[q]
      PROVE  NoLoops(m, I)
  <2> SUFFICES ASSUME NEW q \in Ports, NEW r \in Ports, q # r, m.peer[q] # NoJack,
                      m.peer[r] # NoJack, m.peer[q][1] = m.peer[r][1]
               PROVE  I[q] = NoInterface \/ I[q] # I[r]
    BY DEF NoLoops
  <2>1. CASE q = p
    BY <1>2, <1>3, <1>4, <2>1
  <2>2. CASE r = p
    BY <1>2, <1>3, <1>4, <2>2
  <2>3. CASE q # p /\ r # p
    BY <1>2, <1>4, <2>3 DEF NetFits, NoLoops
  <2> QED
    BY <2>1, <2>2, <2>3
<1> QED
  BY <1>1, <1>4 DEF m

\* The connection of a port of interface i, and the bridges if p is of interface i.
Plugged(n, p, i, j) == Connected(n, p, i # NoInterface, j)
BridgesWith(p, i) == IF i # NoInterface THEN Bridges \cup {p} ELSE Bridges \ {p}

\* Port p of interface i may be put on jack j, and what comes of it.
CanPlug(n, p, i, j) ==
  /\ NetFits(n) /\ private \subseteq HubJacks /\ hubList \subseteq Hubs
  /\ p \in Ports /\ n.peer[p] = NoJack /\ j \in private /\ \A q \in Ports : n.peer[q] # j
  /\ FALSE \in Cycles(n, i, j)

Fitted(m, n, p, i, j) ==
  /\ m \in Net /\ m.peer = [n.peer EXCEPT ![p] = j] /\ PeersOK(m)
  /\ \A I : I[p] = i /\ (\A q \in Ports : q # p => I[q] = Interface[q]) => NoLoops(m, I)
  /\ CountsOK(n, private, hubList) =>
       /\ CountsOK(m, private, hubList)
       /\ PromiscOK(n, Bridges) => PromiscOK(m, BridgesWith(p, i))

LEMMA Joined ==
  ASSUME NEW n, NEW p, NEW i, NEW j, CanPlug(n, p, i, j)
  PROVE  Fitted(Plugged(n, p, i, j), n, p, i, j)
<1> DEFINE bridge == IF i # NoInterface THEN TRUE ELSE FALSE
           m == Connected(n, p, bridge, j)
<1>1. bridge \in BOOLEAN /\ (bridge <=> i # NoInterface)
  OBVIOUS
<1>2. m = Plugged(n, p, i, j)
  BY <1>1 DEF Plugged
<1>3. BridgesWith(p, i) = IF bridge THEN Bridges \cup {p} ELSE Bridges \ {p}
  BY DEF BridgesWith
<1>4. PICK cycle \in Cycles(n, i, j) : cycle = FALSE
  BY DEF CanPlug
<1> HIDE DEF bridge
<1>5. /\ m \in Net /\ m.peer = [n.peer EXCEPT ![p] = j] /\ PeersOK(m)
      /\ \A I : I[p] = i /\ (\A q \in Ports : q # p => I[q] = Interface[q]) => NoLoops(m, I)
      /\ CountsOK(n, private, hubList) =>
           /\ CountsOK(m, private, hubList)
           /\ PromiscOK(n, Bridges) =>
                PromiscOK(m, IF bridge THEN Bridges \cup {p} ELSE Bridges \ {p})
  BY <1>1, <1>4, JoinedWith, SMTT(60) DEF CanPlug
<1> QED
  BY <1>2, <1>3, <1>5 DEF Fitted

\* A port is connected to its old jack again, unless memory is short.
LEMMA ReconnectedIs ==
  ASSUME Inv, NEW f \in Files, NEW p \in Ports, p = file[f].port, NEW j \in HubJacks,
         j = net.peer[p], NEW n, n = Disconnected(net, p), NEW m \in Reconnected(n, f, j)
  PROVE  /\ NetFits(m) /\ \/ m.peer = net.peer
                          \/ AllocMayFail /\ m.peer = [net.peer EXCEPT ![p] = NoJack]
         /\ Right(net) => Right(m)
<1>0. j # NoJack /\ j \in private /\ NetFits(net) /\ private \subseteq HubJacks
      /\ hubList \subseteq Hubs
  BY Jacks, NetFitsIs DEF NetFits, PeersOK
<1>1. /\ NetFits(n) /\ n.peer = [net.peer EXCEPT ![p] = NoJack]
      /\ Right(net) => Right(n)
  BY <1>0, Apart
<1>2. \A q \in Ports : n.peer[q] = IF q = p THEN NoJack ELSE net.peer[q]
  BY <1>0, <1>1 DEF NetFits, Net
<1> DEFINE i == port[p].interface
           bridge == IsBridge(p)
<1>3. PICK cycle \in Cycles(n, i, j) : m = IF cycle THEN n ELSE Connected(n, p, bridge, j)
  BY DEF Reconnected
<1>4. CASE cycle
  <2>1. m = n
    BY <1>3, <1>4
  <2>2. AllocMayFail
    <3>1. ASSUME NEW q \in Neighbours(n, j), IsBridge(q)
          PROVE  /\ q # p /\ port[q].interface # i
                 /\ net.peer[q] # NoJack /\ net.peer[q][1] = j[1] /\ q \in Ports
      <4>1. q \in Ports /\ q # p /\ net.peer[q] \in JacksOf(j[1]) /\ net.peer[q] \in private
        BY <1>0, <1>2, Jacks DEF Neighbours
      <4>2. net.peer[q] # NoJack /\ net.peer[q][1] = j[1]
        BY <1>0, <4>1, Jacks
      <4>3. Interface[q] = NoInterface \/ Interface[q] # Interface[p]
        BY <1>0, <4>1, <4>2 DEF NetFits, NoLoops
      <4> QED
        BY <3>1, <4>1, <4>2, <4>3 DEF Interface, IsBridge
    <3>2. ASSUME NEW q \in Neighbours(n, j), NEW r \in Neighbours(n, j), IsBridge(q), IsBridge(r),
                 q # r
          PROVE  port[q].interface # port[r].interface
      <4>1. /\ q \in Ports /\ net.peer[q] # NoJack /\ net.peer[q][1] = j[1]
            /\ r \in Ports /\ net.peer[r] # NoJack /\ net.peer[r][1] = j[1]
        BY <3>1, <3>2
      <4>2. Interface[q] = NoInterface \/ Interface[q] # Interface[r]
        BY <1>0, <3>2, <4>1 DEF NetFits, NoLoops
      <4> QED
        BY <3>2, <4>1, <4>2 DEF Interface, IsBridge
    <3>3. \A q, r \in Neighbours(n, j) :
            /\ IsBridge(q) => port[q].interface # i
            /\ IsBridge(q) /\ IsBridge(r) /\ q # r => port[q].interface # port[r].interface
      BY <3>1, <3>2
    <3> HIDE DEF i
    <3>4. ~AllocMayFail => \A c \in Cycles(n, i, j) : ~c
      BY <3>3, NoFalseCycle
    <3> QED
      BY <1>4, <3>4
  <2> QED
    BY <1>1, <2>1, <2>2
<1>5. CASE ~cycle
  <2>1. m = Connected(n, p, bridge, j)
    BY <1>3, <1>5
  <2>2. n.peer[p] = NoJack /\ \A q \in Ports : n.peer[q] # j
    BY <1>0, <1>2 DEF NetFits, PeersOK
  <2>3. bridge \in BOOLEAN /\ (bridge <=> i # NoInterface)
    BY DEF IsBridge
  <2>4. Interface[p] = i
    BY DEF Interface
  <2> HIDE DEF bridge, i
  <2>5. /\ m \in Net /\ m.peer = [n.peer EXCEPT ![p] = j] /\ PeersOK(m) /\ NoLoops(m, Interface)
        /\ CountsOK(n, private, hubList) =>
             /\ CountsOK(m, private, hubList)
             /\ PromiscOK(n, Bridges) =>
                  PromiscOK(m, IF bridge THEN Bridges \cup {p} ELSE Bridges \ {p})
    BY <1>0, <1>1, <1>5, <2>1, <2>2, <2>3, <2>4, JoinedWith
  <2>6. m.peer = net.peer
    <3>1. net.peer \in [Ports -> HubJacks \cup {NoJack}]
      BY <1>0 DEF NetFits, Net
    <3> QED
      BY <1>1, <2>5, <3>1
  <2>7. (IF bridge THEN Bridges \cup {p} ELSE Bridges \ {p}) = Bridges
    BY DEF bridge, Bridges
  <2>8. Right(n) => Right(m)
    BY <2>5, <2>7 DEF Right
  <2> QED
    BY <1>1, <2>5, <2>6, <2>8 DEF NetFits
<1> QED
  BY <1>4, <1>5

\* Ports are at jacks that ports or file f had, and f may have one to free.
LEMMA JacksRewired ==
  ASSUME JacksFit, NEW f \in Files, NEW r, Turns(f, r), UNCHANGED <<hubList, used, private>>,
         private \subseteq used, PeersOK(net'),
         \A q \in Ports, k \in HubJacks :
           net'.peer[q] = k => Holds(f, k) \/ \E e \in Ports : net.peer[e] = k,
         r.pc \in HoldsPc =>
           /\ r.pc = "clear" /\ r.jack \in private /\ \A q \in Ports : net'.peer[q] # r.jack
           /\ Holds(f, r.jack) \/ \E e \in Ports : net.peer[e] = r.jack
  PROVE  JacksFit'
<1>1. PeersOK(net)' /\ \A k \in used' : k[1] \in hubList'
  BY DEF JacksFit, PeersOK
<1>2. ASSUME NEW g \in Files, NEW k \in HubJacks, Holds(g, k)'
      PROVE  /\ k \in used'
             /\ k \in private' <=> file'[g].pc \in {"connect", "clear"}
             /\ \A p \in Ports : net'.peer[p] # k
             /\ \A e \in Files : Holds(e, k)' => e = g
  <2>1. CASE g = f
    <3>1. r.pc \in HoldsPc /\ r.jack = k /\ file'[g] = r
      BY <1>2, <2>1 DEF Holds, Turns
    <3>2. r.pc = "clear" /\ k \in private /\ \A q \in Ports : net'.peer[q] # k
      BY <3>1
    <3>3. \A e \in Files : e # f => ~Holds(e, k)
      BY <3>1 DEF JacksFit
    <3>4. \A e \in Files : Holds(e, k)' => e = f
      BY <3>3 DEF Holds, Turns
    <3> QED
      BY <2>1, <3>1, <3>2, <3>4
  <2>2. CASE g # f
    <3>1. Holds(g, k) /\ file'[g] = file[g]
      BY <1>2, <2>2 DEF Holds, Turns
    <3>2. /\ k \in used /\ (k \in private <=> file[g].pc \in {"connect", "clear"})
          /\ \A p \in Ports : net.peer[p] # k
          /\ \A e \in Files : Holds(e, k) => e = g
      BY <3>1 DEF JacksFit
    <3>3. \A p \in Ports : net'.peer[p] # k
      BY <2>2, <3>2
    <3>4. ~Holds(f, k)'
      BY <2>2, <3>2 DEF Holds, Turns
    <3>5. \A e \in Files : Holds(e, k)' => e = g
      BY <3>2, <3>4 DEF Holds, Turns
    <3> QED
      BY <3>1, <3>2, <3>3, <3>5
  <2> QED
    BY <2>1, <2>2
<1> QED
  BY <1>1, <1>2 DEF JacksFit

\* The port of an open file is at another jack.
LEMMA PortsRewired ==
  ASSUME PortsFit, NEW f \in Files, NEW r, Turns(f, r), r.port = file[f].port, r.port # NoPort,
         r.call # "open", port' = port,
         \A q \in Ports : q # r.port => net'.peer[q] = net.peer[q],
         \A g \in Files : file[g].port \in Ports \cup {NoPort}
  PROVE  PortsFit'
<1>1. \A g \in Files : file'[g].port = file[g].port
                       /\ (file'[g].call = "open" => g # f /\ file[g].call = "open")
  BY DEF Turns
<1>2. \A g \in Files : g # f => file[g].port # r.port
  BY DEF PortsFit
<1>3. ASSUME NEW g \in Files, file'[g].port # NoPort
      PROVE  /\ port'[file'[g].port].open
             /\ file'[g].call = "open" => /\ port'[file'[g].port].interface = NoInterface
                                          /\ net'.peer[file'[g].port] = NoJack
  BY <1>1, <1>2, <1>3 DEF PortsFit
<1>4. ASSUME NEW q \in Ports, \A g \in Files : file'[g].port # q
      PROVE  port'[q] = FreePort /\ net'.peer[q] = NoJack
  BY <1>1, <1>4 DEF PortsFit
<1>5. \A g, e \in Files : file'[g].port = file'[e].port /\ file'[g].port # NoPort => g = e
  BY <1>1 DEF PortsFit
<1> QED
  BY <1>3, <1>4, <1>5 DEF PortsFit

\* The port of a file is freed.
LEMMA PortFreed ==
  ASSUME TypeOK, PortsFit, NEW f \in Files, NEW r, Turns(f, r), r.port = NoPort,
         NEW p \in Ports, p = file[f].port, port' = [port EXCEPT ![p] = FreePort],
         \A q \in Ports : net'.peer[q] = IF q = p THEN NoJack ELSE net.peer[q]
  PROVE  /\ PortsFit'
         /\ port' \in [Ports -> [open : BOOLEAN, interface : Interfaces \cup {NoInterface}]]
         /\ \A q \in Ports : Interface'[q] = IF q = p THEN NoInterface ELSE Interface[q]
<1>1. /\ port' \in [Ports -> [open : BOOLEAN, interface : Interfaces \cup {NoInterface}]]
      /\ port'[p] = FreePort /\ \A q \in Ports : q # p => port'[q] = port[q]
  BY DEF TypeOK, FreePort
<1>2. \A q \in Ports : Interface'[q] = IF q = p THEN NoInterface ELSE Interface[q]
  BY <1>1 DEF Interface, FreePort
<1>3. \A g \in Files : file'[g].port # NoPort =>
        g # f /\ file'[g] = file[g] /\ file[g].port # p /\ file[g].port \in Ports
  <2>1. p # NoPort /\ \A g \in Files : file[g].port \in Ports \cup {NoPort}
    BY PortsAssumption, Typed
  <2>2. \A g \in Files : g # f => file[g].port # p
    BY <2>1 DEF PortsFit
  <2> QED
    BY <2>1, <2>2 DEF Turns
<1>4. ASSUME NEW g \in Files, file'[g].port # NoPort
      PROVE  /\ port'[file'[g].port].open
             /\ file'[g].call = "open" => /\ port'[file'[g].port].interface = NoInterface
                                          /\ net'.peer[file'[g].port] = NoJack
  BY <1>1, <1>3, <1>4 DEF PortsFit
<1>5. ASSUME NEW q \in Ports, \A g \in Files : file'[g].port # q
      PROVE  port'[q] = FreePort /\ net'.peer[q] = NoJack
  <2>1. CASE q = p
    BY <1>1, <2>1
  <2>2. CASE q # p
    <3>1. \A g \in Files : file[g].port # q
      BY <1>5, <2>2 DEF Turns
    <3> QED
      BY <1>1, <2>2, <3>1 DEF PortsFit
  <2> QED
    BY <2>1, <2>2
<1>6. \A g, e \in Files : file'[g].port = file'[e].port /\ file'[g].port # NoPort => g = e
  BY <1>3 DEF PortsFit
<1> QED
  BY <1>1, <1>2, <1>4, <1>5, <1>6 DEF PortsFit

\* What every step keeps: the invariant, the numbers unless a jack is being set up,
\* and the owners of jacks unless memory is short.
Kept == Inv' /\ (Right(net) => Right(net)') /\ (~AllocMayFail /\ Owned => Owned')

\* A step that touches ports and the jack of one file keeps the owners.
KeepsOwners(f, r, P) ==
  /\ Turns(f, r) /\ used' = used /\ P \in SUBSET Ports
  /\ \A q \in Ports \ P : net'.peer[q] = net.peer[q]
  /\ \A g \in Files : file[g].port \in Ports \cup {NoPort} /\ (g # f => file[g].port \notin P)
  /\ \A j \in used : Holds(f, j) \/ (\E q \in P : net.peer[q] = j)
       => (r.pc \in HoldsPc /\ r.jack = j) \/ \E q \in Ports : net'.peer[q] = j
  /\ r.pc = "ready" \/ r.call = "bind" => r.port = NoPort \/ net'.peer[r.port] # NoJack

LEMMA OwnedStep ==
  ASSUME Owned, NEW f \in Files, NEW r, NEW P, KeepsOwners(f, r, P)
  PROVE  Owned'
<1> USE DEF KeepsOwners
<1>1. ASSUME NEW j \in used'
      PROVE  (\E g \in Files : Holds(g, j)') \/ \E q \in Ports : net'.peer[q] = j
  <2>1. CASE Holds(f, j) \/ \E q \in P : net.peer[q] = j
    BY <1>1, <2>1 DEF Holds, Turns
  <2>2. CASE ~(Holds(f, j) \/ \E q \in P : net.peer[q] = j)
    <3>1. (\E g \in Files \ {f} : Holds(g, j)) \/ \E q \in Ports \ P : net.peer[q] = j
      BY <1>1, <2>2 DEF Owned
    <3> QED
      BY <3>1 DEF Holds, Turns
  <2> QED
    BY <2>1, <2>2
<1>2. ASSUME NEW g \in Files, file'[g].pc = "ready" \/ file'[g].call = "bind",
             file'[g].port # NoPort
      PROVE  net'.peer[file'[g].port] # NoJack
  <2>1. CASE g = f
    BY <1>2, <2>1 DEF Turns
  <2>2. CASE g # f
    <3>1. file'[g] = file[g] /\ file[g].port \in Ports \ P
      BY <1>2, <2>2 DEF Turns
    <3>2. net'.peer[file[g].port] = net.peer[file[g].port]
      BY <3>1
    <3> QED
      BY <1>2, <3>1, <3>2 DEF Owned
  <2> QED
    BY <2>1, <2>2
<1> QED
  BY <1>1, <1>2 DEF Owned

LEMMA OpenConnectsKept ==
  ASSUME Inv, NEW f \in Files, OpenConnects(f), NEW p, p = file[f].port, NEW j, j = file[f].jack
  PROVE  /\ Kept
         /\ \A q \in Ports : Interface'[q] = Interface[q]
                             /\ (q # p => net'.peer[q] = net.peer[q])
<1>0. /\ file[f].pc = "connect" /\ file[f].call = "open" /\ p \in Ports /\ p # NoPort
      /\ j \in HubJacks /\ Holds(f, j)
      /\ UNCHANGED <<hubList, number, used, private, leaked>>
      /\ \A g \in Files : file[g].port \in Ports \cup {NoPort} /\ (g # f => file[g].port # p)
  <2>1. /\ file[f].pc = "connect" /\ file[f].call = "open" /\ p \in Ports /\ p # NoPort
        /\ j \in HubJacks
        /\ UNCHANGED <<hubList, number, used, private, leaked>>
    BY PortsAssumption DEF OpenConnects, At, Inv, FilesFit, Fits, HoldsPc
  <2>2. \A g \in Files : file[g].port \in Ports \cup {NoPort} /\ (g # f => file[g].port # p)
    BY <2>1, Typed DEF Inv, PortsFit
  <2> QED
    BY <2>1, <2>2 DEF Holds, HoldsPc
<1>1. /\ j \in used /\ j \in private /\ \A q \in Ports : net.peer[q] # j
      /\ net.peer[p] = NoJack /\ port[p].interface = NoInterface
      /\ NetFits(net) /\ private \subseteq HubJacks /\ hubList \subseteq Hubs
      /\ private \subseteq used
      /\ net.peer \in [Ports -> HubJacks \cup {NoJack}]
  BY <1>0, NetFitsIs, Typed DEF Inv, JacksFit, PortsFit, TypeOK
<1>2. p \notin Bridges
  BY <1>1 DEF Bridges, IsBridge
<1>3. ASSUME NEW cycle \in Cycles(net, NoInterface, j), ~cycle,
             net' = Connected(net, p, FALSE, j), Return(f), UNCHANGED port
      PROVE  /\ Kept
             /\ \A q \in Ports : Interface'[q] = Interface[q]
                                 /\ (q # p => net'.peer[q] = net.peer[q])
  <2>1. /\ net' \in Net /\ net'.peer = [net.peer EXCEPT ![p] = j] /\ PeersOK(net')
        /\ NoLoops(net', Interface)
        /\ CountsOK(net, private, hubList) =>
             /\ CountsOK(net', private, hubList)
             /\ PromiscOK(net, Bridges) => PromiscOK(net', Bridges \ {p})
    <3> DEFINE m == Plugged(net, p, NoInterface, j)
    <3>1. Interface[p] = NoInterface /\ FALSE \in Cycles(net, NoInterface, j)
      BY <1>0, <1>1, <1>3 DEF Interface, Cycles
    <3>3. CanPlug(net, p, NoInterface, j)
      BY <1>0, <1>1, <3>1, NetFitsIs DEF CanPlug
    <3>5. net' = m
      BY <1>3 DEF Plugged
    <3>6. Fitted(m, net, p, NoInterface, j)
      BY <3>3, Joined
    <3>2. /\ m \in Net /\ m.peer = [net.peer EXCEPT ![p] = j] /\ PeersOK(m)
          /\ NoLoops(m, Interface)
          /\ CountsOK(net, private, hubList) =>
               /\ CountsOK(m, private, hubList)
               /\ PromiscOK(net, Bridges) => PromiscOK(m, Bridges \ {p})
      BY <3>1, <3>6 DEF Fitted, BridgesWith
    <3> HIDE DEF m
    <3> QED
      BY <3>2, <3>5
  <2>2. \A q \in Ports : net'.peer[q] = IF q = p THEN j ELSE net.peer[q]
    BY <1>0, <1>1, <2>1
  <2>3. /\ file' \in [Files -> File] /\ FilesFit' /\ ioctl' \in Files \cup {NoFile}
    BY <1>3, ReturnIs DEF Inv
  <2>4. PICK r \in File : /\ Turns(f, r) /\ r.port = p /\ r.call = "none"
                          /\ r.pc \in {"closed", "ready"}
    BY <1>3, ReturnIs DEF Inv
  <2>5. Interface' = Interface
    BY <1>3 DEF Interface
  <2>6. PortsFit'
    BY <1>0, <1>3, <2>2, <2>4, PortsRewired DEF Inv
  <2>7. JacksFit'
    BY <1>0, <1>1, <2>1, <2>2, <2>4, JacksRewired DEF Inv, HoldsPc
  <2>8. HubsFit'
    BY <1>0, <2>4, HubsStay DEF Inv
  <2>9. TypeOK'
    BY <1>0, <1>3, <2>1, <2>3 DEF Inv, TypeOK
  <2>10. Right(net) => Right(net)'
    <3>1. Bridges \ {p} = Bridges /\ Bridges' = Bridges
      BY <1>2, <1>3 DEF Bridges, IsBridge
    <3> QED
      BY <1>0, <2>1, <3>1 DEF Right, CountsOK, PromiscOK, OnHub, AttachedPorts
  <2>11. Owned => Owned'
    <3>1. r.pc = "ready" => net'.peer[r.port] # NoJack
      BY <1>0, <1>1, <2>2, <2>4, Jacks
    <3>2. \A k \in used : Holds(f, k) \/ (\E q \in {p} : net.peer[q] = k)
                           => \E q \in Ports : net'.peer[q] = k
      <4>1. \A k \in used : k # NoJack
        BY Jacks DEF Inv, TypeOK
      <4>2. \A k : Holds(f, k) => k = j
        BY DEF Holds
      <4> QED
        BY <1>0, <1>1, <2>2, <4>1, <4>2
    <3> DEFINE P == {p}
    <3>3. P \in SUBSET Ports /\ \A q \in Ports \ P : net'.peer[q] = net.peer[q]
      BY <1>0, <2>2
    <3>4. \A g \in Files : file[g].port \in Ports \cup {NoPort} /\ (g # f => file[g].port \notin P)
      BY <1>0
    <3>5. \A k \in used : Holds(f, k) \/ (\E q \in P : net.peer[q] = k)
                           => (r.pc \in HoldsPc /\ r.jack = k) \/ \E q \in Ports : net'.peer[q] = k
      BY <3>2
    <3> HIDE DEF P
    <3>6. used' = used /\ r.call # "bind"
      BY <1>0, <2>4
    <3>9. KeepsOwners(f, r, P)
      BY <2>4, <3>1, <3>3, <3>4, <3>5, <3>6 DEF KeepsOwners
    <3> QED
      BY <3>9, OwnedStep
  <2> QED
    BY <2>1, <2>2, <2>3, <2>5, <2>6, <2>7, <2>8, <2>9, <2>10, <2>11 DEF Kept, Inv
<1>4. ASSUME port' = [port EXCEPT ![p] = FreePort],
             file' = [file EXCEPT ![f].port = NoPort, ![f].pc = "clear"],
             UNCHANGED <<net, ioctl>>
      PROVE  /\ Kept
             /\ \A q \in Ports : Interface'[q] = Interface[q]
                                 /\ (q # p => net'.peer[q] = net.peer[q])
  <2> DEFINE r == [AtPc(f, "clear") EXCEPT !.port = NoPort]
  <2>1. r \in File /\ Fits(r) /\ r.pc = "clear" /\ r.port = NoPort /\ r.jack = j /\ r.call = "open"
    BY <1>0, Typed DEF Inv, AtPc, File, Fits, HoldsPc
  <2>2. file' \in [Files -> File] /\ FilesFit' /\ Turns(f, r)
    <3> DEFINE one == [file EXCEPT ![f].port = NoPort]
    <3>1. /\ one \in [Files -> File] /\ Differs(one, file, f, "port") /\ one[f].port = NoPort
      BY PortWith, ZenonT(60) DEF Inv, TypeOK
    <3>2. file' = [one EXCEPT ![f].pc = "clear"]
      BY <1>4 DEF Inv, TypeOK
    <3> HIDE DEF one
    <3>3. file' \in [Files -> File] /\ Differs(file', one, f, "pc") /\ file'[f].pc = "clear"
      BY <3>1, <3>2, PcWith DEF Pcs
    <3>4. /\ \A g \in Files : g # f => file'[g] = file[g]
          /\ r.pc = file'[f].pc /\ r.call = file'[f].call /\ r.port = file'[f].port
          /\ r.want = file'[f].want /\ r.jack = file'[f].jack
      BY <3>1, <3>3 DEF Differs, AtPc
    <3> HIDE DEF r
    <3> QED
      BY <2>1, <3>3, <3>4, FieldsStep DEF Inv
  <2> HIDE DEF r
  <2>3. \A q \in Ports : net'.peer[q] = IF q = p THEN NoJack ELSE net.peer[q]
    BY <1>1, <1>4
  <2>4. /\ PortsFit'
        /\ port' \in [Ports -> [open : BOOLEAN, interface : Interfaces \cup {NoInterface}]]
        /\ \A q \in Ports : Interface'[q] = IF q = p THEN NoInterface ELSE Interface[q]
    BY <1>0, <1>4, <2>1, <2>2, <2>3, PortFreed, ZenonT(60) DEF Inv
  <2>5. Interface[p] = NoInterface /\ Bridges' = Bridges
    <3>1. Interface[p] = NoInterface
      BY <1>0, <1>1 DEF Interface
    <3>2. \A q \in Ports : Interface'[q] = Interface[q]
      BY <2>4, <3>1
    <3> QED
      BY <3>1, <3>2 DEF Interface, Bridges, IsBridge
  <2>6. Interface' = Interface
    BY <2>4, <2>5 DEF Interface
  <2>7. JacksFit'
    BY <1>0, <1>4, <2>1, <2>2, JacksStay DEF Inv, HoldsPc
  <2>8. HubsFit'
    BY <1>0, <2>1, <2>2, HubsStay DEF Inv
  <2>9. Inv'
    BY <1>0, <1>4, <2>2, <2>4, <2>6, <2>7, <2>8 DEF Inv, TypeOK, NoLoops
  <2>10. Right(net) => Right(net)'
    BY <1>0, <1>4, <2>5 DEF Right, CountsOK, PromiscOK, OnHub, AttachedPorts
  <2>11. Owned => Owned'
    <3> DEFINE P == {}
    <3>1. P \in SUBSET Ports /\ \A q \in Ports \ P : net'.peer[q] = net.peer[q]
      BY <1>4
    <3>2. \A g \in Files : file[g].port \in Ports \cup {NoPort} /\ (g # f => file[g].port \notin P)
      BY <1>0
    <3>3. \A k \in used : Holds(f, k) \/ (\E q \in P : net.peer[q] = k)
                           => (r.pc \in HoldsPc /\ r.jack = k) \/ \E q \in Ports : net'.peer[q] = k
      BY <2>1 DEF Holds, HoldsPc
    <3>4. used' = used /\ r.pc # "ready" /\ r.call # "bind"
      BY <1>0, <2>1
    <3> HIDE DEF P
    <3>9. KeepsOwners(f, r, P)
      BY <2>1, <2>2, <3>1, <3>2, <3>3, <3>4 DEF KeepsOwners
    <3> QED
      BY <3>9, OwnedStep
  <2> QED
    BY <1>4, <2>6, <2>9, <2>10, <2>11 DEF Kept
<1>5. PICK cycle \in Cycles(net, NoInterface, j) :
           \/ /\ ~cycle
              /\ net' = Connected(net, p, FALSE, j)
              /\ Return(f)
              /\ UNCHANGED port
           \/ /\ cycle
              /\ port' = [port EXCEPT ![p] = FreePort]
              /\ file' = [file EXCEPT ![f].port = NoPort, ![f].pc = "clear"]
              /\ UNCHANGED <<net, ioctl>>
  BY DEF OpenConnects
<1> QED
  BY <1>3, <1>4, <1>5


Making == {"find", "add", "entry", "private", "connect"}

\* A file that is to be bound has a connection until it is switched.
Bound == \A f \in Files : file[f].pc \in Making /\ file[f].call = "bind"
                            => net.peer[file[f].port] # NoJack

\* The file's jack k is to be freed after the switch, successful or not.
Leftover(f, p, old, k) ==
  \/ k = old /\ net'.peer[p] = file[f].jack
  \/ k = file[f].jack /\ (net'.peer[p] = old \/ (AllocMayFail /\ net'.peer[p] = NoJack))

LEMMA SwitchKept ==
  ASSUME Inv, NEW f \in Files, file[f].pc = "connect", file[f].call = "bind",
         NEW p \in Ports, p = file[f].port, NEW old \in HubJacks, old = net.peer[p],
         NEW k \in HubJacks, NetFits(net'), Right(net) => Right(net'),
         UNCHANGED <<hubList, number, used, private, port, leaked, ioctl>>,
         file' \in [Files -> File], \A g \in Files : g # f => file'[g] = file[g],
         file'[f].pc = "clear", file'[f].call = "bind", file'[f].port = p,
         file'[f].want = file[f].want, file'[f].jack = k,
         \A q \in Ports : q # p => net'.peer[q] = net.peer[q],
         Leftover(f, p, old, k)
  PROVE  Kept
<1> DEFINE j == file[f].jack
           r == [pc |-> "clear", call |-> "bind", port |-> p, want |-> file[f].want, jack |-> k]
<1>0. /\ j \in HubJacks /\ Holds(f, j) /\ j # NoJack /\ old # NoJack /\ p # NoPort
      /\ \A g \in Files : file[g].port \in Ports \cup {NoPort} /\ (g # f => file[g].port # p)
  <2>1. /\ j \in HubJacks /\ Holds(f, j)
    BY DEF Inv, FilesFit, Fits, HoldsPc, Holds
  <2>2. p # NoPort /\ j # NoJack /\ old # NoJack
    BY <2>1, PortsAssumption, Jacks
  <2>3. \A g \in Files : file[g].port \in Ports \cup {NoPort}
    BY Typed DEF Inv
  <2>4. \A g \in Files : file[g].port = file[f].port /\ file[g].port # NoPort => g = f
    BY DEF Inv, PortsFit
  <2> QED
    BY <2>1, <2>2, <2>3, <2>4
<1>1. /\ j \in used /\ j \in private /\ \A q \in Ports : net.peer[q] # j
      /\ old \in private /\ \A q \in Ports : net.peer[q] = old => q = p
      /\ private \subseteq used /\ PeersOK(net)
  BY <1>0 DEF Inv, JacksFit, PeersOK, TypeOK
<1>2. r \in File /\ Fits(r) /\ r.pc = "clear" /\ r.port = p /\ r.call = "bind" /\ r.jack = k
  <2>1. file[f].want \in Numbers \cup {NoNumber}
    BY DEF Inv, TypeOK, File
  <2> QED
    BY <1>0, <2>1 DEF File, Fits, HoldsPc
<1>3. FilesFit' /\ Turns(f, r)
  <2>1. /\ r.pc = file'[f].pc /\ r.call = file'[f].call /\ r.port = file'[f].port
        /\ r.want = file'[f].want /\ r.jack = file'[f].jack
    OBVIOUS
  <2> HIDE DEF r
  <2> QED
    BY <1>2, <2>1, FieldsStep DEF Inv
<1> HIDE DEF r, j
<1>4. Interface' = Interface /\ Bridges' = Bridges
  BY DEF Interface, Bridges, IsBridge
<1>5. net' \in Net /\ PeersOK(net') /\ NoLoops(net', Interface)
  BY DEF NetFits
<1>6. PortsFit'
  BY <1>0, <1>2, <1>3, PortsRewired DEF Inv
<1>7. k # NoJack /\ k \in private /\ (Holds(f, k) \/ \E e \in Ports : net.peer[e] = k)
      /\ \A q \in Ports : net'.peer[q] # k
  BY <1>0, <1>1 DEF Leftover, j
<1>8. \A q \in Ports, c \in HubJacks :
        net'.peer[q] = c => Holds(f, c) \/ \E e \in Ports : net.peer[e] = c
  BY <1>0, Jacks DEF Leftover, j
<1>9. JacksFit'
  <2>1. r.pc \in HoldsPc =>
          /\ r.pc = "clear" /\ r.jack \in private /\ \A q \in Ports : net'.peer[q] # r.jack
          /\ Holds(f, r.jack) \/ \E e \in Ports : net.peer[e] = r.jack
    BY <1>2, <1>7
  <2> QED
    BY <1>1, <1>3, <1>5, <1>8, <2>1, JacksRewired DEF Inv
<1>10. HubsFit'
  BY <1>2, <1>3, HubsStay DEF Inv
<1>11. Inv'
  BY <1>3, <1>4, <1>5, <1>6, <1>9, <1>10 DEF Inv, TypeOK
<1>12. Right(net) => Right(net)'
  BY <1>4 DEF Right, CountsOK, PromiscOK, OnHub, AttachedPorts
<1>13. ASSUME ~AllocMayFail, Owned PROVE Owned'
  <2> DEFINE P == {p}
  <2>1. P \in SUBSET Ports /\ (\A q \in Ports \ P : net'.peer[q] = net.peer[q])
        /\ \A g \in Files : file[g].port \in Ports \cup {NoPort} /\ (g # f => file[g].port \notin P)
    BY <1>0
  <2>2. \A c : Holds(f, c) => c = j
    BY DEF Holds, j
  <2>3. HoldsPc = HoldsPc /\ r.pc \in HoldsPc
    BY <1>2 DEF HoldsPc
  <2>4. \A c \in used : Holds(f, c) \/ (\E q \in P : net.peer[q] = c)
                          => (r.pc \in HoldsPc /\ r.jack = c) \/ \E q \in Ports : net'.peer[q] = c
    BY <1>2, <1>13, <2>2, <2>3 DEF Leftover, j
  <2>5. net'.peer[r.port] # NoJack
    BY <1>0, <1>2, <1>13 DEF Leftover, j
  <2> HIDE DEF P
  <2>6. used' = used
    OBVIOUS
  <2>9. KeepsOwners(f, r, P)
    BY <1>3, <1>13, <2>1, <2>4, <2>5, <2>6 DEF KeepsOwners
  <2> QED
    BY <1>13, <2>9, OwnedStep
<1> QED
  BY <1>11, <1>12, <1>13 DEF Kept

\* What VNetSwitchToDifferentPeer finds when it has disconnected the port.
LEMMA Switched ==
  ASSUME Inv, NEW f \in Files, NEW p \in Ports, p = file[f].port, NEW old \in HubJacks,
         old = net.peer[p], NEW n, n = Disconnected(net, p)
  PROVE  /\ NetFits(n) /\ (Right(net) => Right(n))
         /\ \A q \in Ports : n.peer[q] = IF q = p THEN NoJack ELSE net.peer[q]
         /\ private \subseteq HubJacks /\ hubList \subseteq Hubs
<1>1. old # NoJack /\ NetFits(net) /\ private \subseteq HubJacks /\ hubList \subseteq Hubs
  BY Jacks, NetFitsIs
<1>2. /\ NetFits(n) /\ n.peer = [net.peer EXCEPT ![p] = NoJack] /\ (Right(net) => Right(n))
  BY <1>1, Apart
<1> QED
  BY <1>1, <1>2 DEF NetFits, Net

LEMMA BindSwitchesKept ==
  ASSUME Inv, Bound, NEW f \in Files, BindSwitches(f), NEW p, p = file[f].port
  PROVE  /\ Kept
         /\ p \in Ports /\ Interface' = Interface
         /\ \A q \in Ports : q # p => net'.peer[q] = net.peer[q]
<1>0. file[f].pc = "connect" /\ file[f].call = "bind" /\ p \in Ports
      /\ file[f].jack \in HubJacks /\ net.peer[p] \in HubJacks
      /\ file[f].jack \in private /\ \A q \in Ports : net.peer[q] # file[f].jack
  <2>1. file[f].pc = "connect" /\ file[f].call = "bind"
    BY DEF BindSwitches, At
  <2>2. file[f].port \in Ports /\ file[f].jack \in HubJacks
    BY <2>1 DEF Inv, FilesFit, Fits, HoldsPc
  <2>3. net.peer[p] # NoJack
    BY <2>1 DEF Bound, Making
  <2>4. Holds(f, file[f].jack)
    BY <2>1 DEF Holds, HoldsPc
  <2>5. file[f].jack \in private /\ \A q \in Ports : net.peer[q] # file[f].jack
    BY <2>1, <2>2, <2>4 DEF Inv, JacksFit
  <2> QED
    BY <2>1, <2>2, <2>3, <2>5, Typed DEF Inv
<1>1. PICK old \in HubJacks : old = net.peer[p]
  BY <1>0
<1>2. PICK n : n = Disconnected(net, p)
  OBVIOUS
<1>3. PICK new \in HubJacks : new = file[f].jack
  BY <1>0
<1>4. /\ UNCHANGED <<hubList, number, used, private, port, leaked, ioctl>>
      /\ \E cycle \in Cycles(n, port[p].interface, new) :
           \/ /\ ~cycle
              /\ net' = Connected(n, p, IsBridge(p), new)
              /\ file' = [file EXCEPT ![f].jack = old, ![f].pc = "clear"]
           \/ /\ cycle
              /\ net' \in Reconnected(n, f, old)
              /\ Goto(f, "clear")
  BY <1>1, <1>2, <1>3 DEF BindSwitches
<1>5. /\ NetFits(n) /\ (Right(net) => Right(n))
      /\ \A q \in Ports : n.peer[q] = IF q = p THEN NoJack ELSE net.peer[q]
      /\ private \subseteq HubJacks /\ hubList \subseteq Hubs
  BY <1>0, <1>1, <1>2, Switched
<1>6. /\ file \in [Files -> File] /\ Interface' = Interface
  BY <1>4 DEF Inv, TypeOK, Interface
<1>7. CASE /\ FALSE \in Cycles(n, port[p].interface, new)
           /\ net' = Connected(n, p, IsBridge(p), new)
           /\ file' = [file EXCEPT ![f].jack = old, ![f].pc = "clear"]
  <2>1. PICK i : i = port[p].interface
    OBVIOUS
  <2>2. CanPlug(n, p, i, new)
    <3>1. FALSE \in Cycles(n, i, new)
      BY <1>7, <2>1
    <3>2. /\ NetFits(n) /\ private \subseteq HubJacks /\ hubList \subseteq Hubs
          /\ p \in Ports /\ n.peer[p] = NoJack /\ new \in private
      BY <1>0, <1>3, <1>5
    <3>3. \A q \in Ports : n.peer[q] # new
      BY <1>0, <1>3, <1>5, Jacks
    <3> QED
      BY <3>1, <3>2, <3>3 DEF CanPlug
  <2>3. PICK m : m = Plugged(n, p, i, new)
    OBVIOUS
  <2>4. Fitted(m, n, p, i, new)
    BY <2>2, <2>3, Joined
  <2>5. net' = m
    BY <1>7, <2>1, <2>3 DEF Plugged, IsBridge
  <2>6. BridgesWith(p, i) = Bridges
    BY <1>0, <2>1 DEF BridgesWith, Bridges, IsBridge
  <2>7. NoLoops(m, Interface)
    BY <1>0, <2>1, <2>4 DEF Fitted, Interface
  <2>8. NetFits(m) /\ (Right(net) => Right(m))
    BY <1>5, <2>4, <2>6, <2>7 DEF Fitted, NetFits, Right
  <2>9. \A q \in Ports : m.peer[q] = IF q = p THEN new ELSE net.peer[q]
    BY <1>0, <1>5, <2>4 DEF Fitted, NetFits, Net
  <2> DEFINE one == [file EXCEPT ![f].jack = old]
  <2>10. one \in [Files -> File] /\ Differs(one, file, f, "jack") /\ one[f].jack = old
    BY <1>6, JackWith
  <2>11. file' = [one EXCEPT ![f].pc = "clear"]
    BY <1>6, <1>7
  <2> HIDE DEF one
  <2>12. file' \in [Files -> File] /\ Differs(file', one, f, "pc") /\ file'[f].pc = "clear"
    BY <2>10, <2>11, PcWith DEF Pcs
  <2>13. /\ \A g \in Files : g # f => file'[g] = file[g]
         /\ file'[f].call = "bind" /\ file'[f].port = p /\ file'[f].want = file[f].want
         /\ file'[f].jack = old
    BY <1>0, <2>10, <2>12 DEF Differs
  <2>14. NetFits(net') /\ (Right(net) => Right(net'))
         /\ net'.peer[p] = file[f].jack /\ \A q \in Ports : q # p => net'.peer[q] = net.peer[q]
    BY <1>0, <1>3, <2>5, <2>8, <2>9
  <2>15. Kept
    <3>1. Leftover(f, p, old, old)
      BY <2>14 DEF Leftover
    <3> QED
      BY <1>0, <1>1, <1>4, <2>12, <2>13, <2>14, <3>1, SwitchKept
  <2> QED
    BY <1>0, <1>6, <2>14, <2>15
<1>8. CASE net' \in Reconnected(n, f, old) /\ Goto(f, "clear")
  <2>1. PICK m \in Reconnected(n, f, old) : m = net'
    BY <1>8
  <2>2. /\ NetFits(m) /\ \/ m.peer = net.peer
                         \/ AllocMayFail /\ m.peer = [net.peer EXCEPT ![p] = NoJack]
        /\ Right(net) => Right(m)
    BY <1>0, <1>1, <1>2, ReconnectedIs
  <2>3. net.peer \in [Ports -> HubJacks \cup {NoJack}]
    BY Typed DEF Inv
  <2>4. NetFits(net') /\ (Right(net) => Right(net'))
        /\ (\A q \in Ports : q # p => net'.peer[q] = net.peer[q])
        /\ (net'.peer[p] = old \/ (AllocMayFail /\ net'.peer[p] = NoJack))
    <3>1. /\ \A q \in Ports : q # p => m.peer[q] = net.peer[q]
          /\ m.peer[p] = net.peer[p] \/ (AllocMayFail /\ m.peer[p] = NoJack)
      <4>1. CASE m.peer = net.peer
        BY <4>1
      <4>2. CASE AllocMayFail /\ m.peer = [net.peer EXCEPT ![p] = NoJack]
        <5>1. m.peer[p] = NoJack /\ \A q \in Ports : q # p => m.peer[q] = net.peer[q]
          BY <1>0, <2>3, <4>2
        <5> QED
          BY <4>2, <5>1
      <4> QED
        BY <2>2, <4>1, <4>2
    <3>2. NetFits(net') /\ (Right(net) => Right(net'))
      BY <2>1, <2>2
    <3>3. /\ \A q \in Ports : q # p => net'.peer[q] = net.peer[q]
          /\ net'.peer[p] = net.peer[p] \/ (AllocMayFail /\ net'.peer[p] = NoJack)
      BY <2>1, <3>1
    <3> QED
      BY <1>1, <3>2, <3>3
  <2>5. file' = [file EXCEPT ![f].pc = "clear"]
    BY <1>8 DEF Goto
  <2>6. file' \in [Files -> File] /\ Differs(file', file, f, "pc") /\ file'[f].pc = "clear"
    BY <1>6, <2>5, PcWith DEF Pcs
  <2>7. /\ \A g \in Files : g # f => file'[g] = file[g]
        /\ file'[f].call = "bind" /\ file'[f].port = p /\ file'[f].want = file[f].want
        /\ file'[f].jack = new
    BY <1>0, <1>3, <2>6 DEF Differs
  <2>8. Kept
    <3>1. Leftover(f, p, old, new)
      BY <1>3, <2>4 DEF Leftover
    <3> QED
      BY <1>0, <1>1, <1>4, <2>4, <2>6, <2>7, <3>1, SwitchKept
  <2> QED
    BY <1>0, <1>6, <2>4, <2>8
<1>9. \A c \in Cycles(n, port[p].interface, new) : ~c => FALSE \in Cycles(n, port[p].interface, new)
  BY DEF Cycles
<1> QED
  BY <1>4, <1>7, <1>8, <1>9

\* A port is not promiscuous any more.
LEMMA PromiscOff ==
  ASSUME NEW n \in Net, NEW p \in Ports
  PROVE  LET m == [n EXCEPT !.promisc[p] = FALSE]
         IN  /\ m \in Net /\ m.peer = n.peer
             /\ m.numPorts = n.numPorts /\ m.totalPorts = n.totalPorts
             /\ \A q \in Ports : m.promisc[q] = IF q = p THEN FALSE ELSE n.promisc[q]
<1> DEFINE off == [n.promisc EXCEPT ![p] = FALSE]
<1>1. off \in [Ports -> BOOLEAN] /\ \A q \in Ports : off[q] = IF q = p THEN FALSE ELSE n.promisc[q]
  BY DEF Net
<1>2. [n EXCEPT !.promisc[p] = FALSE] = [n EXCEPT !.promisc = off]
  OBVIOUS
<1> HIDE DEF off
<1>3. [n EXCEPT !.promisc = off] = [peer |-> n.peer, numPorts |-> n.numPorts,
                                    totalPorts |-> n.totalPorts, promisc |-> off]
  BY DEF Net
<1>4. [n EXCEPT !.promisc = off] \in Net
  BY <1>1, <1>3 DEF Net
<1> QED
  BY <1>1, <1>2, <1>3, <1>4

\* The numbers of ports depend on the connections alone.
LEMMA SameCounts ==
  ASSUME NEW n, NEW m, m.peer = n.peer, m.numPorts = n.numPorts, m.totalPorts = n.totalPorts,
         NEW jacks, NEW hubs, CountsOK(n, jacks, hubs)
  PROVE  CountsOK(m, jacks, hubs)
  BY DEF CountsOK, OnHub, AttachedPorts

LEMMA CloseKept ==
  ASSUME Inv, NEW f \in Files, Close(f), NEW p, p = file[f].port
  PROVE  /\ Kept
         /\ p \in Ports
         /\ \A q \in Ports : Interface'[q] = IF q = p THEN NoInterface ELSE Interface[q]
         /\ \A q \in Ports : net'.peer[q] = IF q = p THEN NoJack ELSE net.peer[q]
<1>0. /\ file[f].pc = "ready" /\ file[f].call = "none" /\ p \in Ports /\ p # NoPort
      /\ port' = [port EXCEPT ![p] = FreePort]
      /\ UNCHANGED <<hubList, number, used, private, leaked, ioctl>>
  BY PortsAssumption DEF Close, At, Inv, FilesFit, Fits
<1>1. /\ net \in Net /\ net.peer \in [Ports -> HubJacks \cup {NoJack}] /\ NetFits(net)
      /\ private \subseteq HubJacks /\ hubList \subseteq Hubs /\ private \subseteq used
      /\ PeersOK(net) /\ \A g \in Files : file[g].port \in Ports \cup {NoPort}
  BY Typed, NetFitsIs DEF Inv, TypeOK, JacksFit
<1>2. \A g \in Files : g # f => file[g].port # p
  BY <1>0 DEF Inv, PortsFit
<1>3. PICK n : n = IF net.peer[p] = NoJack THEN net ELSE Disconnected(net, p)
  OBVIOUS
<1>4. /\ NetFits(n) /\ (Right(net) => Right(n))
      /\ \A q \in Ports : n.peer[q] = IF q = p THEN NoJack ELSE net.peer[q]
  <2>1. CASE net.peer[p] = NoJack
    BY <1>1, <1>3, <2>1
  <2>2. CASE net.peer[p] # NoJack
    <3>1. NetFits(n) /\ n.peer = [net.peer EXCEPT ![p] = NoJack] /\ (Right(net) => Right(n))
      BY <1>0, <1>3, <2>2, Apart
    <3> QED
      BY <1>0, <1>1, <3>1
  <2> QED
    BY <2>1, <2>2
<1>5. PICK m : m = [n EXCEPT !.promisc[p] = FALSE]
  OBVIOUS
<1>6. /\ m \in Net /\ m.peer = n.peer
      /\ m.numPorts = n.numPorts /\ m.totalPorts = n.totalPorts
      /\ \A q \in Ports : m.promisc[q] = IF q = p THEN FALSE ELSE n.promisc[q]
  BY <1>0, <1>4, <1>5, PromiscOff DEF NetFits
<1>7. net' = m
  BY <1>3, <1>5 DEF Close
<1>8. PICK r : r = IF net.peer[p] = NoJack THEN Closed
                   ELSE [Closed EXCEPT !.pc = "clear", !.call = "close", !.jack = net.peer[p]]
  OBVIOUS
<1>9. file' = [file EXCEPT ![f] = r]
  BY <1>8 DEF Close
<1>10. /\ r \in File /\ Fits(r) /\ r.port = NoPort /\ r.call # "bind"
       /\ net.peer[p] = NoJack => r.pc = "closed"
       /\ net.peer[p] # NoJack => r.pc = "clear" /\ r.jack = net.peer[p]
  <2>1. CASE net.peer[p] = NoJack
    BY <1>8, <2>1 DEF Closed, File, Fits, HoldsPc
  <2>2. CASE net.peer[p] # NoJack
    <3>1. net.peer[p] \in HubJacks
      BY <1>0, <1>1, <2>2
    <3>2. r = [pc |-> "clear", call |-> "close", port |-> NoPort, want |-> NoNumber,
               jack |-> net.peer[p]]
      BY <1>8, <2>2 DEF Closed
    <3> QED
      BY <2>2, <3>1, <3>2 DEF File, Fits, HoldsPc
  <2> QED
    BY <2>1, <2>2
<1>11. file' \in [Files -> File] /\ FilesFit' /\ Turns(f, r)
  BY <1>9, <1>10, FileStep DEF Inv, Turns
<1>12. \A q \in Ports : net'.peer[q] = IF q = p THEN NoJack ELSE net.peer[q]
  BY <1>4, <1>6, <1>7
<1>13. /\ PortsFit'
       /\ port' \in [Ports -> [open : BOOLEAN, interface : Interfaces \cup {NoInterface}]]
       /\ \A q \in Ports : Interface'[q] = IF q = p THEN NoInterface ELSE Interface[q]
  BY <1>0, <1>10, <1>11, <1>12, PortFreed DEF Inv
<1>14. net' \in Net /\ PeersOK(net')
  BY <1>4, <1>6, <1>7 DEF NetFits, PeersOK
<1>15. JacksFit'
  <2>1. \A q \in Ports, c \in HubJacks :
          net'.peer[q] = c => Holds(f, c) \/ \E e \in Ports : net.peer[e] = c
    BY <1>12, Jacks
  <2>2. r.pc \in HoldsPc =>
          /\ r.pc = "clear" /\ r.jack \in private /\ \A q \in Ports : net'.peer[q] # r.jack
          /\ Holds(f, r.jack) \/ \E e \in Ports : net.peer[e] = r.jack
    <3> SUFFICES ASSUME r.pc \in HoldsPc
                 PROVE  /\ r.pc = "clear" /\ r.jack \in private
                        /\ \A q \in Ports : net'.peer[q] # r.jack
                        /\ \E e \in Ports : net.peer[e] = r.jack
      OBVIOUS
    <3>1. net.peer[p] # NoJack /\ r.pc = "clear" /\ r.jack = net.peer[p]
      BY <1>10 DEF HoldsPc
    <3>2. r.jack \in private /\ \A q \in Ports : net.peer[q] = r.jack => q = p
      BY <1>0, <1>1, <3>1 DEF PeersOK
    <3> QED
      BY <1>0, <1>12, <3>1, <3>2
  <2> QED
    BY <1>0, <1>1, <1>11, <1>14, <2>1, <2>2, JacksRewired DEF Inv
<1>16. HubsFit'
  BY <1>0, <1>10, <1>11, HubsStay DEF Inv
<1>17. NoLoops(net, Interface)'
  BY <1>12, <1>13 DEF Inv, NoLoops
<1>18. Inv'
  BY <1>0, <1>11, <1>13, <1>14, <1>15, <1>16, <1>17 DEF Inv, TypeOK
<1>19. Right(net) => Right(net)'
  <2> SUFFICES ASSUME Right(net) PROVE Right(net)'
    OBVIOUS
  <2>1. CountsOK(m, private, hubList)
    BY <1>4, <1>6, SameCounts DEF Right
  <2>2. Bridges' = Bridges \ {p}
    BY <1>13 DEF Bridges, IsBridge, Interface
  <2>3. PromiscOK(m, Bridges \ {p})
    <3> SUFFICES ASSUME NEW q \in Ports
                 PROVE  m.promisc[q] <=> q \in Bridges \ {p} /\ m.peer[q] # NoJack
                                         /\ OnHub(m, m.peer[q][1]) # {q}
      BY DEF PromiscOK
    <3>1. CASE q = p
      BY <1>6, <3>1
    <3>2. CASE q # p
      <4>1. n.promisc[q] <=> q \in Bridges /\ n.peer[q] # NoJack /\ OnHub(n, n.peer[q][1]) # {q}
        BY <1>4 DEF Right, PromiscOK
      <4>2. OnHub(m, m.peer[q][1]) = OnHub(n, n.peer[q][1])
        BY <1>6 DEF OnHub
      <4> QED
        BY <1>6, <3>2, <4>1, <4>2
    <3> QED
      BY <3>1, <3>2
  <2> QED
    BY <1>0, <1>7, <2>1, <2>2, <2>3 DEF Right, CountsOK, PromiscOK, OnHub, AttachedPorts
<1>20. ASSUME ~AllocMayFail, Owned PROVE Owned'
  <2> DEFINE P == {p}
  <2>1. P \in SUBSET Ports /\ (\A q \in Ports \ P : net'.peer[q] = net.peer[q])
        /\ \A g \in Files : file[g].port \in Ports \cup {NoPort} /\ (g # f => file[g].port \notin P)
    BY <1>0, <1>1, <1>2, <1>12
  <2>2. \A c : ~Holds(f, c)
    BY <1>0 DEF Holds, HoldsPc
  <2>3. \A c \in used : c # NoJack
    BY Jacks DEF Inv, TypeOK
  <2>4. \A c \in used : Holds(f, c) \/ (\E q \in P : net.peer[q] = c)
                          => (r.pc \in HoldsPc /\ r.jack = c) \/ \E q \in Ports : net'.peer[q] = c
    BY <1>10, <2>2, <2>3 DEF HoldsPc
  <2> HIDE DEF P
  <2>9. KeepsOwners(f, r, P)
    BY <1>0, <1>10, <1>11, <2>1, <2>4 DEF KeepsOwners
  <2> QED
    BY <1>20, <2>9, OwnedStep
<1> QED
  BY <1>0, <1>12, <1>13, <1>18, <1>19, <1>20 DEF Kept

\* Port q of interface i takes the place of p.
Replaces(p, q, i) ==
  /\ p # q /\ net.peer[p] # NoJack /\ net.peer[q] = NoJack
  /\ \A e \in Ports :
       Interface'[e] = IF e = p THEN NoInterface ELSE IF e = q THEN i ELSE Interface[e]
  /\ \A e \in Ports : net'.peer[e] = IF e = p THEN NoJack ELSE IF e = q THEN net.peer[p]
                                     ELSE net.peer[e]

LEMMA ReplaceKept ==
  ASSUME Inv, NEW f \in Files, NEW q \in Ports, NEW i \in Interfaces \cup {NoInterface},
         ReplacePort(f, q, i), NEW p, p = file[f].port
  PROVE  /\ Kept
         /\ p \in Ports
         /\ \/ Replaces(p, q, i)
            \/ Interface' = Interface /\ \A e \in Ports : e # p => net'.peer[e] = net.peer[e]
<1>0. /\ file[f].pc = "ready" /\ file[f].call = "none" /\ p \in Ports /\ p # NoPort
      /\ net.peer[p] # NoJack /\ ~port[q].open
      /\ UNCHANGED <<hubList, number, used, private, leaked, ioctl>>
  BY PortsAssumption DEF ReplacePort, MayCall, At, Inv, FilesFit, Fits
<1>1. /\ net \in Net /\ net.peer \in [Ports -> HubJacks \cup {NoJack}] /\ NetFits(net)
      /\ private \subseteq HubJacks /\ hubList \subseteq Hubs /\ private \subseteq used
      /\ PeersOK(net) /\ file \in [Files -> File]
      /\ port \in [Ports -> [open : BOOLEAN, interface : Interfaces \cup {NoInterface}]]
  BY Typed, NetFitsIs DEF Inv, TypeOK, JacksFit
<1>2. /\ \A g \in Files : file[g].port \in Ports \cup {NoPort}
      /\ \A g \in Files : g # f => file[g].port # p
      /\ \A g \in Files : file[g].port # q
      /\ q # p /\ port[q] = FreePort /\ net.peer[q] = NoJack
  <2>1. \A g \in Files : file[g].port # q
    BY <1>0, PortsAssumption DEF Inv, PortsFit
  <2>2. port[q] = FreePort /\ net.peer[q] = NoJack
    BY <2>1 DEF Inv, PortsFit
  <2>3. \A g \in Files : g # f => file[g].port # p
    BY <1>0 DEF Inv, PortsFit
  <2> QED
    BY <1>0, <2>1, <2>2, <2>3, Typed DEF Inv
<1>3. PICK j \in HubJacks : j = net.peer[p]
  BY <1>0, <1>1
<1>4. PICK n : n = Disconnected(net, p)
  OBVIOUS
<1>5. /\ NetFits(n) /\ (Right(net) => Right(n))
      /\ \A e \in Ports : n.peer[e] = IF e = p THEN NoJack ELSE net.peer[e]
  BY <1>0, <1>3, <1>4, Switched
<1>6. \E cycle \in Cycles(n, i, j) :
        \/ /\ ~cycle
           /\ net' = [Connected(n, q, i # NoInterface, j) EXCEPT !.promisc[p] = FALSE]
           /\ port' = [port EXCEPT ![p] = FreePort, ![q] = [open |-> TRUE, interface |-> i]]
           /\ file' = [file EXCEPT ![f].port = q]
        \/ /\ cycle
           /\ net' \in Reconnected(n, f, j)
           /\ UNCHANGED <<port, file>>
  BY <1>3, <1>4 DEF ReplacePort
<1>7. ASSUME FALSE \in Cycles(n, i, j),
             net' = [Connected(n, q, i # NoInterface, j) EXCEPT !.promisc[p] = FALSE],
             port' = [port EXCEPT ![p] = FreePort, ![q] = [open |-> TRUE, interface |-> i]],
             file' = [file EXCEPT ![f].port = q]
      PROVE  Kept /\ Replaces(p, q, i)
  <2>1. CanPlug(n, q, i, j)
    <3>1. j \in private /\ \A e \in Ports : net.peer[e] = j => e = p
      BY <1>0, <1>1, <1>3 DEF PeersOK
    <3>2. \A e \in Ports : n.peer[e] # j
      BY <1>5, <3>1, Jacks
    <3> QED
      BY <1>1, <1>2, <1>5, <1>7, <3>1, <3>2 DEF CanPlug
  <2>2. PICK l : l = Plugged(n, q, i, j)
    OBVIOUS
  <2>3. Fitted(l, n, q, i, j)
    BY <2>1, <2>2, Joined
  <2>4. PICK m : m = [l EXCEPT !.promisc[p] = FALSE]
    OBVIOUS
  <2>5. net' = m
    BY <1>7, <2>2, <2>4 DEF Plugged
  <2>6. l \in Net /\ l.peer = [n.peer EXCEPT ![q] = j] /\ PeersOK(l)
    BY <2>3 DEF Fitted
  <2>7. /\ m \in Net /\ m.peer = l.peer
        /\ m.numPorts = l.numPorts /\ m.totalPorts = l.totalPorts
        /\ \A e \in Ports : m.promisc[e] = IF e = p THEN FALSE ELSE l.promisc[e]
    BY <1>0, <2>4, <2>6, PromiscOff, ZenonT(120)
  <2>8. \A e \in Ports : l.peer[e] = IF e = p THEN NoJack ELSE IF e = q THEN j ELSE net.peer[e]
    BY <1>2, <1>5, <2>6 DEF NetFits, Net
  <2>9. \A e \in Ports : net'.peer[e] = IF e = p THEN NoJack ELSE IF e = q THEN j ELSE net.peer[e]
    BY <2>5, <2>7, <2>8
  <2>10. /\ port' \in [Ports -> [open : BOOLEAN, interface : Interfaces \cup {NoInterface}]]
         /\ port'[p] = FreePort /\ port'[q].open /\ port'[q].interface = i
         /\ \A e \in Ports : e # p /\ e # q => port'[e] = port[e]
    <3>1. /\ FreePort \in [open : BOOLEAN, interface : Interfaces \cup {NoInterface}]
          /\ [open |-> TRUE, interface |-> i]
               \in [open : BOOLEAN, interface : Interfaces \cup {NoInterface}]
      BY DEF FreePort
    <3> DEFINE fresh == [open |-> TRUE, interface |-> i]
    <3>2. fresh.open /\ fresh.interface = i
      OBVIOUS
    <3>3. port' = [port EXCEPT ![p] = FreePort, ![q] = fresh]
      BY <1>7
    <3> HIDE DEF fresh
    <3>4. /\ port' \in [Ports -> [open : BOOLEAN, interface : Interfaces \cup {NoInterface}]]
          /\ port'[p] = FreePort /\ port'[q] = fresh
          /\ \A e \in Ports : e # p /\ e # q => port'[e] = port[e]
      BY <1>0, <1>1, <1>2, <3>1, <3>3 DEF fresh
    <3> QED
      BY <3>2, <3>4
  <2>11. \A e \in Ports : Interface'[e] = IF e = p THEN NoInterface ELSE IF e = q THEN i
                                          ELSE Interface[e]
    BY <2>10 DEF Interface, FreePort
  <2>12. Replaces(p, q, i)
    BY <1>0, <1>2, <1>3, <2>9, <2>11 DEF Replaces
  <2> DEFINE r == [pc |-> "ready", call |-> "none", port |-> q, want |-> file[f].want,
                   jack |-> file[f].jack]
  <2>13. r \in File /\ Fits(r) /\ r.pc = "ready" /\ r.port = q /\ r.call = "none"
    BY <1>1 DEF File, Fits, HoldsPc
  <2>14. file' \in [Files -> File] /\ FilesFit' /\ Turns(f, r)
    <3>1. file' \in [Files -> File] /\ Differs(file', file, f, "port") /\ file'[f].port = q
      BY <1>1, <1>7, PortWith, ZenonT(60)
    <3>2. /\ \A g \in Files : g # f => file'[g] = file[g]
          /\ r.pc = file'[f].pc /\ r.call = file'[f].call /\ r.port = file'[f].port
          /\ r.want = file'[f].want /\ r.jack = file'[f].jack
      BY <1>0, <3>1 DEF Differs
    <3> HIDE DEF r
    <3> QED
      BY <2>13, <3>1, <3>2, FieldsStep DEF Inv
  <2> HIDE DEF r
  <2>15. PortsFit'
    <3>1. \A g, h \in Files : file'[g].port = file'[h].port /\ file'[g].port # NoPort => g = h
      BY <1>2, <2>13, <2>14 DEF Turns, Inv, PortsFit
    <3>2. ASSUME NEW g \in Files, file'[g].port # NoPort
          PROVE  /\ port'[file'[g].port].open
                 /\ file'[g].call = "open" => /\ port'[file'[g].port].interface = NoInterface
                                              /\ net'.peer[file'[g].port] = NoJack
      <4>1. CASE g = f
        BY <2>10, <2>13, <2>14, <4>1 DEF Turns
      <4>2. CASE g # f
        <5>1. file'[g] = file[g] /\ file[g].port \in Ports /\ file[g].port # p /\ file[g].port # q
          BY <1>2, <2>14, <3>2, <4>2 DEF Turns
        <5>2. /\ port[file[g].port].open
              /\ file[g].call = "open" => /\ port[file[g].port].interface = NoInterface
                                          /\ net.peer[file[g].port] = NoJack
          BY <3>2, <5>1 DEF Inv, PortsFit
        <5> QED
          BY <2>9, <2>10, <5>1, <5>2
      <4> QED
        BY <4>1, <4>2
    <3>3. ASSUME NEW e \in Ports, \A g \in Files : file'[g].port # e
          PROVE  port'[e] = FreePort /\ net'.peer[e] = NoJack
      <4>1. e # q
        BY <2>13, <2>14, <3>3 DEF Turns
      <4>2. CASE e = p
        BY <2>9, <2>10, <4>2
      <4>3. CASE e # p
        <5>1. \A g \in Files : file[g].port # e
          BY <2>14, <3>3, <4>3 DEF Turns
        <5> QED
          BY <2>9, <2>10, <4>1, <4>3, <5>1 DEF Inv, PortsFit
      <4> QED
        BY <4>2, <4>3
    <3> QED
      BY <3>1, <3>2, <3>3 DEF PortsFit
  <2>16. net' \in Net /\ PeersOK(net')
    BY <2>5, <2>6, <2>7 DEF PeersOK
  <2>17. JacksFit'
    <3>1. \A e \in Ports, c \in HubJacks :
            net'.peer[e] = c => Holds(f, c) \/ \E d \in Ports : net.peer[d] = c
      BY <1>0, <1>3, <2>9, Jacks
    <3>2. r.pc \notin HoldsPc
      BY <2>13 DEF HoldsPc
    <3> QED
      BY <1>0, <1>1, <2>14, <2>16, <3>1, <3>2, JacksRewired DEF Inv
  <2>18. HubsFit'
    BY <1>0, <2>13, <2>14, HubsStay DEF Inv
  <2>19. NoLoops(net, Interface)'
    <3>1. PICK I : I = [Interface EXCEPT ![q] = i]
      OBVIOUS
    <3>2. I[q] = i /\ \A e \in Ports : e # q => I[e] = Interface[e]
      BY <3>1 DEF Interface
    <3>3. NoLoops(l, I)
      BY <2>3, <3>2 DEF Fitted
    <3> QED
      BY <2>8, <2>9, <2>11, <3>2, <3>3 DEF NoLoops
  <2>20. Inv'
    BY <1>0, <2>10, <2>14, <2>15, <2>16, <2>17, <2>18, <2>19 DEF Inv, TypeOK
  <2>21. Right(net) => Right(net)'
    <3> SUFFICES ASSUME Right(net) PROVE Right(net)'
      OBVIOUS
    <3>1. CountsOK(l, private, hubList) /\ PromiscOK(l, BridgesWith(q, i))
      BY <1>5, <2>3 DEF Right, Fitted
    <3>2. CountsOK(m, private, hubList)
      BY <2>7, <3>1, SameCounts
    <3>3. Bridges' = BridgesWith(q, i) \ {p}
      BY <1>2, <2>11 DEF Bridges, BridgesWith, IsBridge, Interface
    <3>4. PromiscOK(m, BridgesWith(q, i) \ {p})
      <4> SUFFICES ASSUME NEW e \in Ports
                   PROVE  m.promisc[e] <=> e \in BridgesWith(q, i) \ {p} /\ m.peer[e] # NoJack
                                           /\ OnHub(m, m.peer[e][1]) # {e}
        BY DEF PromiscOK
      <4>1. CASE e = p
        BY <2>7, <4>1
      <4>2. CASE e # p
        <5>1. l.promisc[e] <=> e \in BridgesWith(q, i) /\ l.peer[e] # NoJack
                               /\ OnHub(l, l.peer[e][1]) # {e}
          BY <3>1 DEF PromiscOK
        <5>2. OnHub(m, m.peer[e][1]) = OnHub(l, l.peer[e][1])
          BY <2>7 DEF OnHub
        <5> QED
          BY <2>7, <4>2, <5>1, <5>2
      <4> QED
        BY <4>1, <4>2
    <3> QED
      BY <1>0, <2>5, <3>2, <3>3, <3>4 DEF Right, CountsOK, PromiscOK, OnHub, AttachedPorts
  <2>22. ASSUME ~AllocMayFail, Owned PROVE Owned'
    <3> DEFINE P == {p, q}
    <3>1. P \in SUBSET Ports /\ (\A e \in Ports \ P : net'.peer[e] = net.peer[e])
          /\ \A g \in Files :
               file[g].port \in Ports \cup {NoPort} /\ (g # f => file[g].port \notin P)
      BY <1>0, <1>2, <2>9
    <3>2. \A c : ~Holds(f, c)
      BY <1>0 DEF Holds, HoldsPc
    <3>3. \A c \in used : c # NoJack
      BY Jacks DEF Inv, TypeOK
    <3>4. net'.peer[q] = j /\ j # NoJack
      BY <1>0, <1>2, <1>3, <2>9
    <3>5. \A c \in used : Holds(f, c) \/ (\E e \in P : net.peer[e] = c)
                            => (r.pc \in HoldsPc /\ r.jack = c) \/ \E e \in Ports : net'.peer[e] = c
      BY <1>2, <1>3, <3>2, <3>3, <3>4
    <3> HIDE DEF P
    <3>9. KeepsOwners(f, r, P)
      BY <1>0, <2>13, <2>14, <3>1, <3>4, <3>5 DEF KeepsOwners
    <3> QED
      BY <2>22, <3>9, OwnedStep
  <2> QED
    BY <2>12, <2>20, <2>21, <2>22 DEF Kept
<1>8. ASSUME net' \in Reconnected(n, f, j), UNCHANGED <<port, file>>
      PROVE  Kept /\ Interface' = Interface /\ \A e \in Ports : e # p => net'.peer[e] = net.peer[e]
  <2>1. PICK m \in Reconnected(n, f, j) : m = net'
    BY <1>8
  <2>2. /\ NetFits(m) /\ \/ m.peer = net.peer
                         \/ AllocMayFail /\ m.peer = [net.peer EXCEPT ![p] = NoJack]
        /\ Right(net) => Right(m)
    BY <1>0, <1>3, <1>4, ReconnectedIs
  <2>3. /\ \A e \in Ports : e # p => m.peer[e] = net.peer[e]
        /\ m.peer[p] = net.peer[p] \/ (AllocMayFail /\ m.peer[p] = NoJack)
    <3>1. CASE m.peer = net.peer
      BY <3>1
    <3>2. CASE AllocMayFail /\ m.peer = [net.peer EXCEPT ![p] = NoJack]
      <4>1. m.peer[p] = NoJack /\ \A e \in Ports : e # p => m.peer[e] = net.peer[e]
        BY <1>0, <1>1, <3>2
      <4> QED
        BY <3>2, <4>1
    <3> QED
      BY <2>2, <3>1, <3>2
  <2>4. NetFits(net') /\ (Right(net) => Right(net'))
    BY <2>1, <2>2
  <2>5. /\ \A e \in Ports : e # p => net'.peer[e] = net.peer[e]
        /\ net'.peer[p] = net.peer[p] \/ (AllocMayFail /\ net'.peer[p] = NoJack)
    BY <2>1, <2>3
  <2> DEFINE r == file[f]
  <2>6. Turns(f, r) /\ r.pc = "ready" /\ r.port = p /\ r.call = "none"
    BY <1>0, <1>8 DEF Turns
  <2> HIDE DEF r
  <2>7. Interface' = Interface /\ Bridges' = Bridges
    BY <1>8 DEF Interface, Bridges, IsBridge
  <2>8. net' \in Net /\ PeersOK(net') /\ NoLoops(net', Interface)
    BY <2>4 DEF NetFits
  <2>9. PortsFit'
    BY <1>0, <1>2, <1>8, <2>5, <2>6, PortsRewired DEF Inv
  <2>10. JacksFit'
    <3>1. \A e \in Ports, c \in HubJacks :
            net'.peer[e] = c => Holds(f, c) \/ \E d \in Ports : net.peer[d] = c
      BY <2>5, Jacks
    <3>2. r.pc \notin HoldsPc
      BY <2>6 DEF HoldsPc
    <3> QED
      BY <1>0, <1>1, <2>6, <2>8, <3>1, <3>2, JacksRewired DEF Inv
  <2>11. HubsFit'
    BY <1>0, <2>6, HubsStay DEF Inv
  <2>12. Inv'
    BY <1>0, <1>8, <2>7, <2>8, <2>9, <2>10, <2>11 DEF Inv, TypeOK, FilesFit
  <2>13. Right(net) => Right(net)'
    BY <1>0, <2>4, <2>7 DEF Right, CountsOK, PromiscOK, OnHub, AttachedPorts
  <2>14. ASSUME ~AllocMayFail, Owned PROVE Owned'
    <3>1. \A e \in Ports : net'.peer[e] = net.peer[e]
      BY <2>5, <2>14
    <3> QED
      BY <1>0, <1>2, <1>8, <2>14, <3>1 DEF Owned, Holds
  <2> QED
    BY <2>5, <2>7, <2>12, <2>13, <2>14 DEF Kept
<1>9. \A c \in Cycles(n, i, j) : ~c => FALSE \in Cycles(n, i, j)
  BY DEF Cycles
<1> QED
  BY <1>0, <1>6, <1>7, <1>8, <1>9

-----------------------------------------------------------------------------
(* The steps that connect nothing *)

\* What such a step of file f does to it and to jacks.
QuietFile(f) ==
  /\ \A g \in Files : g # f => file'[g] = file[g]
  /\ Interface' = Interface
  /\ file'[f].pc \in Making /\ file'[f].call = "bind" =>
       /\ file'[f].port = file[f].port
       /\ (file[f].pc \in Making /\ file[f].call = "bind") \/ net.peer[file[f].port] # NoJack
  /\ file'[f].pc = "ready" \/ file'[f].call = "bind" =>
       \/ file'[f].port = NoPort
       \/ file'[f].port = file[f].port /\ (file[f].pc = "ready" \/ file[f].call = "bind")
  /\ \A j \in used' : j \notin used \/ Holds(f, j) => file'[f].pc \in HoldsPc /\ file'[f].jack = j

LEMMA AllocFailsQuiet ==
  ASSUME TypeOK, FilesFit, PortsFit, NEW f \in Files, file[f].pc \in {"find", "add", "entry"},
         AllocFails(f), net'.peer = net.peer, \A j \in used' : j \in used /\ ~Holds(f, j)
  PROVE  QuietFile(f) /\ file'[f].pc \in {"closed", "ready"}
<1>1. /\ Interface' = Interface
      /\ \E r \in File : /\ Turns(f, r) /\ r.pc \in {"closed", "ready"} /\ r.call = "none"
                         /\ r.port = NoPort \/ (r.port = file[f].port /\ file[f].call = "bind")
  BY AllocFailsIs
<1>2. PICK r \in File : /\ Turns(f, r) /\ r.pc \in {"closed", "ready"} /\ r.call = "none"
                        /\ r.port = NoPort \/ (r.port = file[f].port /\ file[f].call = "bind")
  BY <1>1
<1> QED
  BY <1>1, <1>2 DEF QuietFile, Turns

LEMMA ClaimQuiet ==
  ASSUME TypeOK, FilesFit, PortsFit, NEW f \in Files, file[f].pc \in {"find", "add"},
         NEW h \in Hubs, ClaimJack(f, h), net'.peer = net.peer
  PROVE  QuietFile(f) /\ file'[f].pc \in {"entry", "closed", "ready"}
<1>0. /\ file \in [Files -> File] /\ \A j : ~Holds(f, j)
      /\ file[f].pc \in Making
  BY DEF TypeOK, Holds, HoldsPc, Making
<1>1. ASSUME NEW i \in 1..JackCount, used' = used \cup {<<h, i>>},
             file' = [file EXCEPT ![f].jack = <<h, i>>, ![f].pc = "entry"],
             UNCHANGED <<port, ioctl>>
      PROVE  QuietFile(f) /\ file'[f].pc = "entry"
  <2> DEFINE j == <<h, i>>
             a == [file EXCEPT ![f].jack = j]
  <2>1. j \in HubJacks \cup (Hubs \X {0}) \cup {NoJack}
    BY DEF HubJacks
  <2> HIDE DEF j
  <2>2. file' = [a EXCEPT ![f].pc = "entry"] /\ used' = used \cup {j}
    BY <1>1 DEF j
  <2>3. a \in [Files -> File] /\ Differs(a, file, f, "jack") /\ a[f].jack = j
    BY <1>0, <2>1, JackWith, ZenonT(60)
  <2> HIDE DEF a
  <2>4. file' \in [Files -> File] /\ Differs(file', a, f, "pc") /\ file'[f].pc = "entry"
    BY <2>2, <2>3, PcWith, ZenonT(120) DEF Pcs
  <2>5. /\ \A g \in Files : g # f => file'[g] = file[g]
        /\ file'[f].port = file[f].port /\ file'[f].call = file[f].call /\ file'[f].jack = j
    BY <2>3, <2>4 DEF Differs
  <2> QED
    BY <1>0, <1>1, <2>2, <2>4, <2>5 DEF QuietFile, Interface, HoldsPc
<1>2. ASSUME AllocFails(f), used' = used
      PROVE  QuietFile(f) /\ file'[f].pc \in {"closed", "ready"}
  BY <1>0, <1>2, AllocFailsQuiet
<1>3. CASE \E i \in 1..JackCount :
             /\ used' = used \cup {<<h, i>>}
             /\ file' = [file EXCEPT ![f].jack = <<h, i>>, ![f].pc = "entry"]
             /\ UNCHANGED <<port, ioctl>>
  BY <1>1, <1>3
<1>4. CASE AllocFails(f) /\ used' = used
  BY <1>2, <1>4
<1> QED
  BY <1>3, <1>4 DEF ClaimJack

LEMMA GotoQuiet ==
  ASSUME TypeOK, NEW f \in Files, NEW x \in Pcs, Goto(f, x), Interface' = Interface,
         x \in Making => file[f].pc \in Making, x # "ready",
         \A j \in used' : j \in used /\ (Holds(f, j) => x \in HoldsPc)
  PROVE  QuietFile(f) /\ file'[f].pc = x /\ file'[f].jack = file[f].jack
<1>1. file' \in [Files -> File] /\ Differs(file', file, f, "pc") /\ file'[f].pc = x
  BY PcWith, ZenonT(120) DEF TypeOK, Goto
<1> QED
  BY <1>1 DEF QuietFile, Differs, Holds

LEMMA ReturnQuiet ==
  ASSUME TypeOK, FilesFit, NEW f \in Files, file[f].pc \in {"unuse", "kfree"}, Return(f),
         Interface' = Interface, \A j \in used' : j \in used /\ ~Holds(f, j)
  PROVE  QuietFile(f) /\ file'[f].pc \in {"closed", "ready"}
<1>1. PICK r \in File : /\ Turns(f, r) /\ r.port = file[f].port /\ r.call = "none"
                        /\ r.pc \in {"closed", "ready"}
  BY ReturnIs
<1>2. file[f].port = NoPort \/ file[f].call = "bind"
  BY DEF FilesFit, Fits
<1> QED
  BY <1>1, <1>2 DEF QuietFile, Turns, Making

\* The numbers of ports that such a step leaves as they are.
QuietNumbers(f) ==
  /\ file[f].pc # "private" /\ file'[f].pc # "private" /\ private' \subseteq private
  /\ net'.numPorts = net.numPorts
  /\ \A h \in hubList' : IF h \in hubList THEN net'.totalPorts[h] = net.totalPorts[h]
                         ELSE net'.totalPorts[h] = 0

QuietStep(f) ==
  \/ \E n \in Numbers : Open(f, n) \/ Bind(f, n)
  \/ FindHub(f) \/ AddHub(f) \/ EntryFails(f) \/ InitJack(f) \/ SetPrivate(f)
  \/ ClearPrivate(f) \/ UnuseJack(f) \/ FreeHub(f)

Quiet(f) ==
  /\ QuietFile(f) /\ net'.peer = net.peer /\ net'.promisc = net.promisc
  /\ \A h \in hubList : number'[h] = number[h]
  /\ InitJack(f) \/ SetPrivate(f) \/ QuietNumbers(f)

LEMMA QuietIs ==
  ASSUME Inv, NEW f \in Files, QuietStep(f)
  PROVE  Quiet(f)
<1>0. /\ TypeOK /\ FilesFit /\ PortsFit /\ JacksFit /\ HubsFit /\ file \in [Files -> File]
      /\ net \in Net /\ number \in [Hubs -> Numbers \cup {NoNumber}] /\ hubList \subseteq Hubs
  BY DEF Inv, TypeOK
<1>1. ASSUME NEW n \in Numbers, Open(f, n) PROVE Quiet(f)
  <2>1. PICK p \in Ports :
          /\ ~port[p].open
          /\ port' = [port EXCEPT ![p].open = TRUE]
          /\ file' = [file EXCEPT ![f] = [pc |-> "find", call |-> "open", port |-> p, want |-> n,
                                          jack |-> NoJack]]
    BY <1>1 DEF Open
  <2>2. Interface' = Interface
    BY <2>1 DEF Inv, TypeOK, Interface
  <2>3. /\ \A g \in Files : g # f => file'[g] = file[g]
        /\ file'[f].pc = "find" /\ file'[f].call = "open" /\ file[f].pc = "closed"
    BY <1>0, <1>1, <2>1 DEF Open, At
  <2>4. QuietFile(f)
    BY <1>1, <2>2, <2>3 DEF QuietFile, Open, Holds, HoldsPc
  <2> QED
    BY <1>1, <2>3, <2>4 DEF Quiet, QuietNumbers, Open
<1>2. ASSUME NEW n \in Numbers, Bind(f, n) PROVE Quiet(f)
  <2> DEFINE a == [file EXCEPT ![f].pc = "find"]
             b == [a EXCEPT ![f].call = "bind"]
             c == [b EXCEPT ![f].want = n]
  <2>1. a \in [Files -> File] /\ Differs(a, file, f, "pc") /\ a[f].pc = "find"
    BY <1>0, PcWith DEF Pcs
  <2> HIDE DEF a
  <2>2. b \in [Files -> File] /\ Differs(b, a, f, "call") /\ b[f].call = "bind"
    BY <2>1, CallWith DEF Calls
  <2> HIDE DEF b
  <2>3. c \in [Files -> File] /\ Differs(c, b, f, "want") /\ c[f].want = n
    BY <2>2, WantWith
  <2>4. file' = c
    BY <1>2 DEF Bind, a, b
  <2> HIDE DEF c
  <2>5. /\ \A g \in Files : g # f => file'[g] = file[g]
        /\ file'[f].pc = "find" /\ file'[f].call = "bind" /\ file'[f].port = file[f].port
    BY <2>1, <2>2, <2>3, <2>4 DEF Differs
  <2>6. file[f].pc = "ready" /\ net.peer[file[f].port] # NoJack
    BY <1>2 DEF Bind, MayCall, At
  <2>7. QuietFile(f)
    BY <1>2, <2>5, <2>6 DEF QuietFile, Bind, Holds, HoldsPc, Interface
  <2> QED
    BY <1>2, <2>5, <2>6, <2>7 DEF Quiet, QuietNumbers, Bind
<1>3. ASSUME FindHub(f) PROVE Quiet(f)
  <2>0. /\ file[f].pc = "find" /\ UNCHANGED <<hubList, private, net, leaked>>
    BY <1>3 DEF FindHub, At
  <2>1. ASSUME NEW h \in Listed(file[f].want), ClaimJack(f, h), UNCHANGED number
        PROVE  Quiet(f)
    <3>1. h \in Hubs
      BY <1>0 DEF Listed
    <3>2. QuietFile(f) /\ file'[f].pc \in {"entry", "closed", "ready"}
      BY <1>0, <2>0, <2>1, <3>1, ClaimQuiet
    <3> QED
      BY <2>0, <2>1, <3>2 DEF Quiet, QuietNumbers
  <2>2. ASSUME NEW h \in Hubs, number[h] = NoNumber,
               number' = [number EXCEPT ![h] = file[f].want],
               file' = [file EXCEPT ![f].jack = <<h, 0>>, ![f].pc = "add"],
               UNCHANGED <<used, port, ioctl>>
        PROVE  Quiet(f)
    <3> DEFINE j == <<h, 0>>
               a == [file EXCEPT ![f].jack = j]
    <3>1. j \in HubJacks \cup (Hubs \X {0}) \cup {NoJack}
      OBVIOUS
    <3> HIDE DEF j
    <3>2. file' = [a EXCEPT ![f].pc = "add"]
      BY <2>2 DEF j
    <3>3. a \in [Files -> File] /\ Differs(a, file, f, "jack") /\ a[f].jack = j
      BY <1>0, <3>1, JackWith
    <3> HIDE DEF a
    <3>4. file' \in [Files -> File] /\ Differs(file', a, f, "pc") /\ file'[f].pc = "add"
      BY <3>2, <3>3, PcWith, ZenonT(60) DEF Pcs
    <3>5. /\ \A g \in Files : g # f => file'[g] = file[g]
          /\ file'[f].port = file[f].port /\ file'[f].call = file[f].call
      BY <3>3, <3>4 DEF Differs
    <3>6. QuietFile(f)
      BY <2>0, <2>2, <3>4, <3>5 DEF QuietFile, Interface, Holds, HoldsPc, Making
    <3>7. h \notin hubList
      BY <1>0, <2>2 DEF HubsFit
    <3> QED
      BY <1>0, <2>0, <2>2, <3>4, <3>6, <3>7 DEF Quiet, QuietNumbers
  <2> QED
    BY <1>3, <2>1, <2>2 DEF FindHub
<1>4. ASSUME AddHub(f) PROVE Quiet(f)
  <2>0. /\ file[f].pc = "add" /\ private' = private /\ file[f].jack[1] \in Hubs
        /\ file[f].jack[1] \notin hubList
    BY <1>0, <1>4 DEF AddHub, At, FilesFit, Fits, HubsFit, Maker
  <2>1. ASSUME NEW h \in Listed(file[f].want), ClaimJack(f, h), UNCHANGED <<hubList, net>>,
               number' = [number EXCEPT ![file[f].jack[1]] = NoNumber]
        PROVE  Quiet(f)
    <3>1. h \in Hubs
      BY <1>0 DEF Listed
    <3>2. QuietFile(f) /\ file'[f].pc \in {"entry", "closed", "ready"}
      BY <1>0, <2>0, <2>1, <3>1, ClaimQuiet
    <3>3. \A g \in hubList : number'[g] = number[g]
      BY <1>0, <2>0, <2>1
    <3> QED
      BY <2>0, <2>1, <3>2, <3>3 DEF Quiet, QuietNumbers
  <2>2. ASSUME ClaimJack(f, file[f].jack[1]), UNCHANGED number,
               hubList' = hubList \cup {file[f].jack[1]},
               net' = [net EXCEPT !.totalPorts[file[f].jack[1]] = 0]
        PROVE  Quiet(f)
    <3>1. PICK own \in Hubs : own = file[f].jack[1]
      BY <2>0
    <3> DEFINE total == [net.totalPorts EXCEPT ![own] = 0]
    <3>2. total[own] = 0 /\ \A h \in hubList : total[h] = net.totalPorts[h]
      BY <1>0, <2>0, <3>1 DEF Net
    <3>3. net' = [net EXCEPT !.totalPorts = total]
      BY <2>2, <3>1
    <3> HIDE DEF total
    <3>4. /\ net'.peer = net.peer /\ net'.promisc = net.promisc
          /\ net'.numPorts = net.numPorts /\ net'.totalPorts = total
      BY <1>0, <3>3 DEF Net
    <3>5. QuietFile(f) /\ file'[f].pc \in {"entry", "closed", "ready"}
      BY <1>0, <2>0, <2>2, <3>1, <3>4, ClaimQuiet
    <3> QED
      BY <2>0, <2>2, <3>1, <3>2, <3>4, <3>5 DEF Quiet, QuietNumbers
  <2> QED
    BY <1>4, <2>1, <2>2 DEF AddHub
<1>5. ASSUME EntryFails(f) PROVE Quiet(f)
  <2>1. /\ file[f].pc = "entry" /\ AllocFails(f) /\ used' = used \ {file[f].jack}
        /\ UNCHANGED <<hubList, number, private, net>>
    BY <1>5 DEF EntryFails, At
  <2>2. \A j \in used' : j \in used /\ ~Holds(f, j)
    BY <2>1 DEF Holds
  <2>3. QuietFile(f) /\ file'[f].pc \in {"closed", "ready"}
    BY <1>0, <2>1, <2>2, AllocFailsQuiet
  <2> QED
    BY <2>1, <2>3 DEF Quiet, QuietNumbers
<1>6. ASSUME InitJack(f) PROVE Quiet(f)
  <2>1. /\ file[f].pc = "entry" /\ Goto(f, "private") /\ used' = used
        /\ UNCHANGED <<hubList, number, private, port>>
        /\ net' = [net EXCEPT !.numPorts[file[f].jack] = net.totalPorts[file[f].jack[1]]]
    BY <1>6 DEF InitJack, At
  <2>2. net'.peer = net.peer /\ net'.promisc = net.promisc
    BY <1>0, <2>1 DEF Net
  <2>3. QuietFile(f)
    <3>1. "private" \in Pcs /\ "private" \in HoldsPc /\ file[f].pc \in Making
      BY <2>1 DEF Pcs, HoldsPc, Making
    <3>2. Interface' = Interface
      BY <2>1 DEF Interface
    <3> QED
      BY <1>0, <2>1, <3>1, <3>2, GotoQuiet
  <2> QED
    BY <1>6, <2>1, <2>2, <2>3 DEF Quiet
<1>7. ASSUME SetPrivate(f) PROVE Quiet(f)
  <2>1. /\ file[f].pc = "private" /\ Goto(f, "connect") /\ used' = used
        /\ UNCHANGED <<hubList, number, net, port>>
    BY <1>7 DEF SetPrivate, At
  <2>2. "connect" \in Pcs /\ "connect" \in HoldsPc /\ file[f].pc \in Making
    BY <2>1 DEF Pcs, HoldsPc, Making
  <2>3. Interface' = Interface
    BY <2>1 DEF Interface
  <2>4. QuietFile(f)
    BY <1>0, <2>1, <2>2, <2>3, GotoQuiet
  <2> QED
    BY <1>7, <2>1, <2>4 DEF Quiet
<1>8. ASSUME ClearPrivate(f) PROVE Quiet(f)
  <2>1. /\ file[f].pc = "clear" /\ Goto(f, "unuse") /\ used' = used
        /\ private' = private \ {file[f].jack}
        /\ UNCHANGED <<hubList, number, net, port>>
    BY <1>8 DEF ClearPrivate, At
  <2>2. "unuse" \in Pcs /\ "unuse" \in HoldsPc /\ "unuse" \notin Making
    BY DEF Pcs, HoldsPc, Making
  <2>3. Interface' = Interface
    BY <2>1 DEF Interface
  <2>4. QuietFile(f) /\ file'[f].pc = "unuse"
    BY <1>0, <2>1, <2>2, <2>3, GotoQuiet
  <2> QED
    BY <2>1, <2>4 DEF Quiet, QuietNumbers
<1>9. ASSUME UnuseJack(f) PROVE Quiet(f)
  <2>1. /\ file[f].pc = "unuse" /\ used' = used \ {file[f].jack} /\ hubList' \subseteq hubList
        /\ Return(f) \/ Goto(f, "kfree")
        /\ UNCHANGED <<number, private, net, port>>
    BY <1>9 DEF UnuseJack, At
  <2>2. Interface' = Interface /\ \A j \in used' : j \in used /\ ~Holds(f, j)
    BY <2>1 DEF Interface, Holds
  <2>3. CASE Return(f)
    <3>1. QuietFile(f) /\ file'[f].pc \in {"closed", "ready"}
      BY <1>0, <2>1, <2>2, <2>3, ReturnQuiet
    <3> QED
      BY <2>1, <3>1 DEF Quiet, QuietNumbers
  <2>4. CASE Goto(f, "kfree")
    <3>1. "kfree" \in Pcs /\ "kfree" \notin Making
      BY DEF Pcs, Making
    <3>2. QuietFile(f) /\ file'[f].pc = "kfree"
      BY <1>0, <2>2, <2>4, <3>1, GotoQuiet
    <3> QED
      BY <2>1, <3>2 DEF Quiet, QuietNumbers
  <2> QED
    BY <2>1, <2>3, <2>4
<1>10. ASSUME FreeHub(f) PROVE Quiet(f)
  <2>1. /\ file[f].pc = "kfree" /\ number' = [number EXCEPT ![file[f].jack[1]] = NoNumber]
        /\ Return(f) /\ UNCHANGED <<hubList, used, private, port, net>>
    BY <1>10 DEF FreeHub, At
  <2>2. Interface' = Interface /\ \A j \in used' : j \in used /\ ~Holds(f, j)
    BY <2>1 DEF Interface, Holds, HoldsPc
  <2>3. QuietFile(f) /\ file'[f].pc \in {"closed", "ready"}
    BY <1>0, <2>1, <2>2, ReturnQuiet
  <2>4. file[f].jack \in HubJacks
    BY <1>0, <2>1 DEF FilesFit, Fits
  <2>5. file[f].jack[1] \in Hubs /\ file[f].jack[1] \notin hubList
    BY <1>0, <2>1, <2>4, Jacks DEF HubsFit, Maker
  <2>6. \A h \in hubList : number'[h] = number[h]
    BY <1>0, <2>1, <2>5
  <2> QED
    BY <2>1, <2>3, <2>6 DEF Quiet, QuietNumbers
<1> QED
  BY <1>1, <1>2, <1>3, <1>4, <1>5, <1>6, <1>7, <1>8, <1>9, <1>10 DEF QuietStep

LEMMA QuietKept ==
  ASSUME Inv, NEW f \in Files, QuietStep(f)
  PROVE  Inv' /\ (Bound => Bound') /\ (Owned => Owned')
<1>1. Inv'
  BY OpenInv, PcInv, FindHubInv, AddHubInv, EntryFailsInv, UnuseJackInv, FreeHubInv DEF QuietStep
<1>2. QuietFile(f) /\ net'.peer = net.peer
  BY QuietIs DEF Quiet
<1>3. ASSUME Bound PROVE Bound'
  <2> SUFFICES ASSUME NEW g \in Files, file'[g].pc \in Making, file'[g].call = "bind"
               PROVE  net'.peer[file'[g].port] # NoJack
    BY DEF Bound, Making
  <2>1. CASE g = f
    BY <1>2, <1>3, <2>1 DEF QuietFile, Bound
  <2>2. CASE g # f
    BY <1>2, <1>3, <2>2 DEF QuietFile, Bound
  <2> QED
    BY <2>1, <2>2
<1>4. ASSUME Owned PROVE Owned'
  <2>1. ASSUME NEW j \in used'
        PROVE  (\E g \in Files : Holds(g, j)') \/ \E q \in Ports : net'.peer[q] = j
    <3>1. CASE j \notin used \/ Holds(f, j)
      BY <1>2, <2>1, <3>1 DEF QuietFile, Holds, HoldsPc
    <3>2. CASE j \in used /\ ~Holds(f, j)
      <4>1. (\E g \in Files \ {f} : Holds(g, j)) \/ \E q \in Ports : net.peer[q] = j
        BY <1>4, <3>2 DEF Owned
      <4> QED
        BY <1>2, <4>1 DEF QuietFile, Holds, HoldsPc
    <3> QED
      BY <3>1, <3>2
  <2>2. ASSUME NEW g \in Files, file'[g].pc = "ready" \/ file'[g].call = "bind",
               file'[g].port # NoPort
        PROVE  net'.peer[file'[g].port] # NoJack
    <3>1. CASE g = f
      BY <1>2, <1>4, <2>2, <3>1 DEF QuietFile, Owned
    <3>2. CASE g # f
      BY <1>2, <1>4, <2>2, <3>2 DEF QuietFile, Owned
    <3> QED
      BY <3>1, <3>2
  <2> QED
    BY <2>1, <2>2 DEF Owned
<1> QED
  BY <1>1, <1>3, <1>4

-----------------------------------------------------------------------------
(* The numbers of ports when a jack is set up and taken out of use *)

\* The jacks that have to know how many ports there are.
Knowing == private \cup {j \in HubJacks : \E f \in Files : At(f, "private") /\ Holds(f, j)}

LEMMA QuietCounted ==
  ASSUME Inv, Counted, NEW f \in Files, QuietStep(f)
  PROVE  Counted'
<1>0. Quiet(f) /\ Inv'
  BY QuietIs, QuietKept
<1>1. /\ net'.peer = net.peer /\ net'.promisc = net.promisc /\ Interface' = Interface
      /\ \A g \in Files : g # f => file'[g] = file[g]
  BY <1>0 DEF Quiet, QuietFile
<1>2. PromiscOK(net, Bridges)'
  <2>1. Bridges' = Bridges
    BY <1>1 DEF Interface, Bridges, IsBridge
  <2> QED
    BY <1>1, <2>1 DEF Counted, PromiscOK, OnHub
<1>3. /\ CountsOK(net, Knowing, hubList) /\ Knowing \subseteq HubJacks
      /\ net \in Net /\ PeersOK(net) /\ private \subseteq used
  BY Typed DEF Counted, Knowing, Inv, JacksFit, TypeOK
<1>4. \A h, j : OnHub(net', h) = OnHub(net, h) /\ AttachedPorts(net', j) = AttachedPorts(net, j)
  BY <1>1 DEF OnHub, AttachedPorts
<1>5. CASE QuietNumbers(f)
  <2>1. Knowing' \subseteq Knowing
    BY <1>1, <1>5 DEF QuietNumbers, Knowing, At, Holds, HoldsPc
  <2>2. ASSUME NEW j \in Knowing'
        PROVE  net'.numPorts[j] = Cardinality(OnHub(net', j[1])) - AttachedPorts(net', j)
    BY <1>3, <1>4, <1>5, <2>1 DEF QuietNumbers, CountsOK
  <2>3. ASSUME NEW h \in hubList'
        PROVE  net'.totalPorts[h] = Cardinality(OnHub(net', h))
    <3>1. CASE h \in hubList
      BY <1>3, <1>4, <1>5, <3>1 DEF QuietNumbers, CountsOK
    <3>2. CASE h \notin hubList
      <4>1. OnHub(net, h) = {}
        BY <1>3, <3>2 DEF OnHub, PeersOK, Inv, JacksFit
      <4>2. Cardinality(OnHub(net', h)) = 0
        BY <1>4, <4>1, FS_EmptySet
      <4> QED
        BY <1>5, <2>3, <3>2, <4>2 DEF QuietNumbers
    <3> QED
      BY <3>1, <3>2
  <2>4. CountsOK(net', Knowing', hubList')
    BY <2>2, <2>3 DEF CountsOK
  <2> QED
    BY <1>2, <2>4 DEF Counted, Knowing
<1>6. CASE SetPrivate(f)
  <2>1. /\ file[f].pc = "private" /\ private' = private \cup {file[f].jack} /\ net' = net
        /\ hubList' = hubList /\ Goto(f, "connect")
    BY <1>6 DEF SetPrivate, At
  <2>2. file'[f].pc = "connect" /\ file[f].jack \in HubJacks
    BY <2>1 DEF Goto, Inv, TypeOK, FilesFit, Fits, HoldsPc
  <2>3. Holds(f, file[f].jack)
    BY <2>1 DEF Holds, HoldsPc
  <2>4. Knowing' \subseteq Knowing
    BY <1>1, <2>1, <2>2, <2>3 DEF Knowing, At, Holds, HoldsPc
  <2>5. CountsOK(net', Knowing', hubList')
    BY <1>3, <2>1, <2>4 DEF CountsOK
  <2> QED
    BY <1>2, <2>5 DEF Counted, Knowing
<1>7. CASE InitJack(f)
  <2>1. PICK j \in HubJacks : j = file[f].jack
    BY <1>7 DEF InitJack, At, Inv, FilesFit, Fits, HoldsPc
  <2>2. /\ file[f].pc = "entry" /\ Goto(f, "private") /\ UNCHANGED <<hubList, used, private>>
        /\ net' = [net EXCEPT !.numPorts[j] = net.totalPorts[j[1]]]
    BY <1>7, <2>1 DEF InitJack, At
  <2>3. file'[f].pc = "private" /\ file'[f].jack = j
    BY <2>1, <2>2 DEF Goto, Inv, TypeOK
  <2>4. Holds(f, j)
    BY <2>1, <2>2 DEF Holds, HoldsPc
  <2>5. j[1] \in hubList /\ (\A q \in Ports : net.peer[q] # j) /\ j # NoJack
    BY <2>4, Jacks DEF Inv, JacksFit
  <2> DEFINE num == [net.numPorts EXCEPT ![j] = net.totalPorts[j[1]]]
  <2>6. num[j] = net.totalPorts[j[1]] /\ \A k \in HubJacks : k # j => num[k] = net.numPorts[k]
    BY <1>3 DEF Net
  <2>7. net' = [net EXCEPT !.numPorts = num]
    BY <2>2
  <2> HIDE DEF num
  <2>8. net'.numPorts = num /\ net'.totalPorts = net.totalPorts
    BY <1>3, <2>7 DEF Net
  <2>9. Knowing' \subseteq Knowing \cup {j}
    BY <1>1, <2>2, <2>3 DEF Knowing, At, Holds, HoldsPc
  <2>10. ASSUME NEW k \in Knowing'
         PROVE  net'.numPorts[k] = Cardinality(OnHub(net', k[1])) - AttachedPorts(net', k)
    <3>1. CASE k = j
      <4>1. AttachedPorts(net, j) = 0
        BY <1>3, <2>5, Attached
      <4>2. net.totalPorts[j[1]] = Cardinality(OnHub(net, j[1]))
        BY <1>3, <2>5 DEF CountsOK
      <4>3. Cardinality(OnHub(net, j[1])) \in Nat
        BY OnHubFinite
      <4> QED
        BY <1>4, <2>6, <2>8, <3>1, <4>1, <4>2, <4>3
    <3>2. CASE k # j
      BY <1>3, <1>4, <2>6, <2>8, <2>9, <3>2 DEF CountsOK
    <3> QED
      BY <3>1, <3>2
  <2>11. \A h \in hubList' : net'.totalPorts[h] = Cardinality(OnHub(net', h))
    BY <1>3, <1>4, <2>2, <2>8 DEF CountsOK
  <2>12. CountsOK(net', Knowing', hubList')
    BY <2>10, <2>11 DEF CountsOK
  <2> QED
    BY <1>2, <2>12 DEF Counted, Knowing
<1> QED
  BY <1>0, <1>5, <1>6, <1>7 DEF Quiet

-----------------------------------------------------------------------------
(* The steps that connect and disconnect *)

Connects(f) ==
  \/ OpenConnects(f) \/ BindSwitches(f) \/ Close(f)
  \/ \E q \in Ports, i \in Interfaces \cup {NoInterface} : ReplacePort(f, q, i)

\* Such a step rewires the port of a file, or puts another in its place.
Rewires(p) ==
  \/ \A q \in Ports : q # p => Interface'[q] = Interface[q] /\ net'.peer[q] = net.peer[q]
  \/ \E q \in Ports, i \in Interfaces \cup {NoInterface} : Replaces(p, q, i)

LEMMA ConnectsKept ==
  ASSUME Inv, Bound, NEW f \in Files, Connects(f)
  PROVE  /\ Kept
         /\ \E p \in Ports : p = file[f].port /\ Rewires(p)
         /\ UNCHANGED <<hubList, number, used, private>>
<1>0. \E p \in Ports : p = file[f].port
  BY DEF Connects, OpenConnects, BindSwitches, Close, ReplacePort, MayCall, At, Inv, FilesFit, Fits
<1>1. PICK p \in Ports : p = file[f].port
  BY <1>0
<1>2. CASE OpenConnects(f)
  <2>1. PICK j : j = file[f].jack
    OBVIOUS
  <2>2. /\ Kept
        /\ \A q \in Ports : Interface'[q] = Interface[q] /\ (q # p => net'.peer[q] = net.peer[q])
    BY <1>1, <1>2, <2>1, OpenConnectsKept
  <2> QED
    BY <1>1, <1>2, <2>2 DEF Rewires, OpenConnects
<1>3. CASE BindSwitches(f)
  <2>1. Kept /\ Interface' = Interface /\ \A q \in Ports : q # p => net'.peer[q] = net.peer[q]
    BY <1>1, <1>3, BindSwitchesKept
  <2> QED
    BY <1>1, <1>3, <2>1 DEF Rewires, BindSwitches
<1>4. CASE Close(f)
  <2>1. /\ Kept
        /\ \A q \in Ports : Interface'[q] = IF q = p THEN NoInterface ELSE Interface[q]
        /\ \A q \in Ports : net'.peer[q] = IF q = p THEN NoJack ELSE net.peer[q]
    BY <1>1, <1>4, CloseKept
  <2> QED
    BY <1>1, <1>4, <2>1, SMTT(60) DEF Rewires, Close
<1>5. ASSUME NEW q \in Ports, NEW i \in Interfaces \cup {NoInterface}, ReplacePort(f, q, i)
      PROVE  Kept /\ Rewires(p) /\ UNCHANGED <<hubList, number, used, private>>
  <2>1. /\ Kept
        /\ \/ Replaces(p, q, i)
           \/ Interface' = Interface /\ \A e \in Ports : e # p => net'.peer[e] = net.peer[e]
    BY <1>1, <1>5, ReplaceKept
  <2> QED
    BY <1>5, <2>1 DEF Rewires, ReplacePort
<1> QED
  BY <1>1, <1>2, <1>3, <1>4, <1>5 DEF Connects

\* It leaves the file where nothing is being made.
LEMMA ConnectsFile ==
  ASSUME Inv, NEW f \in Files, Connects(f)
  PROVE  /\ file'[f].pc \notin Making
         /\ \A g \in Files : g # f => file'[g] = file[g]
         /\ MayConnect
<1>0. file \in [Files -> File] /\ TypeOK /\ FilesFit
  BY DEF Inv, TypeOK
<1>1. ASSUME NEW x \in Pcs \ Making, NEW old \in [Files -> File],
             \A g \in Files : g # f => old[g] = file[g], file' = [old EXCEPT ![f].pc = x]
      PROVE  file'[f].pc \notin Making /\ \A g \in Files : g # f => file'[g] = file[g]
  BY <1>1, PcWith DEF Differs
<1>2. "clear" \in Pcs \ Making
  BY DEF Pcs, Making
<1>3. CASE OpenConnects(f)
  <2>1. CASE Return(f)
    <3>1. PICK r \in File : Turns(f, r) /\ r.pc \in {"closed", "ready"}
      BY <1>0, <2>1, ReturnIs
    <3> QED
      BY <1>3, <3>1 DEF Turns, Making, OpenConnects
  <2>2. CASE file' = [file EXCEPT ![f].port = NoPort, ![f].pc = "clear"]
    <3> DEFINE one == [file EXCEPT ![f].port = NoPort]
    <3>1. one \in [Files -> File] /\ Differs(one, file, f, "port")
      BY <1>0, PortWith
    <3>2. file' = [one EXCEPT ![f].pc = "clear"]
      BY <1>0, <2>2
    <3> HIDE DEF one
    <3> QED
      BY <1>1, <1>2, <1>3, <3>1, <3>2 DEF Differs, OpenConnects
  <2> QED
    BY <1>3, <2>1, <2>2 DEF OpenConnects
<1>4. CASE BindSwitches(f)
  <2>1. CASE file' = [file EXCEPT ![f].jack = net.peer[file[f].port], ![f].pc = "clear"]
    <3> DEFINE one == [file EXCEPT ![f].jack = net.peer[file[f].port]]
    <3>0. file[f].port \in Ports
      BY <1>4 DEF BindSwitches, At, Inv, FilesFit, Fits
    <3>1. net.peer[file[f].port] \in HubJacks \cup (Hubs \X {0}) \cup {NoJack}
      BY <1>0, <3>0, Typed
    <3>2. one \in [Files -> File] /\ Differs(one, file, f, "jack")
      BY <1>0, <3>1, JackWith
    <3>3. file' = [one EXCEPT ![f].pc = "clear"]
      BY <1>0, <2>1
    <3> HIDE DEF one
    <3> QED
      BY <1>1, <1>2, <1>4, <3>2, <3>3 DEF Differs, BindSwitches
  <2>2. CASE Goto(f, "clear")
    <3>1. file' = [file EXCEPT ![f].pc = "clear"]
      BY <2>2 DEF Goto
    <3> QED
      BY <1>0, <1>1, <1>2, <1>4, <3>1 DEF BindSwitches
  <2> QED
    BY <1>4, <2>1, <2>2 DEF BindSwitches
<1>5. CASE Close(f)
  BY <1>0, <1>5 DEF Close, Closed, Making
<1>6. ASSUME NEW q \in Ports, NEW i \in Interfaces \cup {NoInterface}, ReplacePort(f, q, i)
      PROVE  /\ file'[f].pc \notin Making
             /\ \A g \in Files : g # f => file'[g] = file[g]
             /\ MayConnect
  <2>1. file[f].pc = "ready" /\ MayConnect
    BY <1>6 DEF ReplacePort, MayCall, At
  <2>2. CASE file' = [file EXCEPT ![f].port = q]
    <3>1. Differs(file', file, f, "port")
      BY <1>0, <2>2, PortWith
    <3> QED
      BY <2>1, <3>1 DEF Differs, Making
  <2>3. CASE file' = file
    BY <2>1, <2>3 DEF Making
  <2> QED
    BY <1>6, <2>1, <2>2, <2>3 DEF ReplacePort
<1> QED
  BY <1>3, <1>4, <1>5, <1>6 DEF Connects

LEMMA ConnectsBound ==
  ASSUME Inv, Bound, NEW f \in Files, Connects(f)
  PROVE  Bound'
<1>1. /\ file'[f].pc \notin Making
      /\ \A g \in Files : g # f => file'[g] = file[g]
  BY ConnectsFile
<1>2. PICK p \in Ports : p = file[f].port /\ Rewires(p)
  BY ConnectsKept
<1> SUFFICES ASSUME NEW g \in Files, file'[g].pc \in Making, file'[g].call = "bind"
             PROVE  net'.peer[file'[g].port] # NoJack
  BY DEF Bound, Making
<1>3. g # f /\ file'[g] = file[g]
  BY <1>1
<1>4. net.peer[file[g].port] # NoJack /\ file[g].port \in Ports
  BY <1>3 DEF Bound, Inv, FilesFit, Fits, Making
<1>5. file[g].port # p
  BY <1>2, <1>3, <1>4, PortsAssumption DEF Inv, PortsFit
<1> QED
  BY <1>2, <1>3, <1>4, <1>5 DEF Rewires, Replaces

LEMMA ConnectsCounted ==
  ASSUME InitAlone, Inv, Bound, Counted, NEW f \in Files, Connects(f)
  PROVE  Counted'
<1>1. /\ file'[f].pc \notin Making
      /\ \A g \in Files : g # f => file'[g] = file[g]
      /\ MayConnect
  BY ConnectsFile
<1>2. \A g \in Files : ~At(g, "private") /\ ~At(g, "private")'
  BY <1>1 DEF MayConnect, At, Making
<1>3. Knowing = private /\ Knowing' = private'
  BY <1>2 DEF Knowing
<1>4. Right(net)
  BY <1>3 DEF Counted, Knowing, Right
<1>5. Right(net)'
  BY <1>4, ConnectsKept DEF Kept
<1> QED
  BY <1>3, <1>5 DEF Counted, Knowing, Right

LEMMA NextParts ==
  ASSUME Next
  PROVE  \E f \in Files : QuietStep(f) \/ Connects(f)
  BY DEF Next, QuietStep, Connects

LEMMA NextKept ==
  ASSUME Inv, Bound, [Next]_vars
  PROVE  /\ Inv' /\ Bound'
         /\ ~AllocMayFail /\ Owned => Owned'
         /\ InitAlone /\ Counted => Counted'
<1>1. CASE Next
  <2>1. PICK f \in Files : QuietStep(f) \/ Connects(f)
    BY <1>1, NextParts
  <2>2. CASE QuietStep(f)
    BY <2>2, QuietKept, QuietCounted
  <2>3. CASE Connects(f)
    <3>1. Kept /\ Bound'
      BY <2>3, ConnectsKept, ConnectsBound
    <3>2. ASSUME InitAlone, Counted PROVE Counted'
      BY <2>3, <3>2, ConnectsCounted
    <3> QED
      BY <3>1, <3>2 DEF Kept
  <2> QED
    BY <2>1, <2>2, <2>3
<1>2. CASE UNCHANGED vars
  BY <1>2, SMTT(60) DEF vars, Inv, Bound, Owned, Counted, TypeOK, FilesFit, PortsFit, JacksFit, HubsFit,
              NoLoops, Interface, PeersOK, Holds, Maker, At, Fits, CountsOK, PromiscOK, OnHub,
              AttachedPorts, Bridges, IsBridge, HoldsPc
<1> QED
  BY <1>1, <1>2

-----------------------------------------------------------------------------
(* Theorems *)

LEMMA InitHolds ==
  ASSUME Init
  PROVE  Inv /\ Bound /\ Owned /\ Counted
<1>1. /\ hubList = {} /\ used = {} /\ private = {} /\ leaked = FALSE /\ ioctl = NoFile
      /\ number = [h \in Hubs |-> NoNumber] /\ port = [p \in Ports |-> FreePort]
      /\ file = [f \in Files |-> Closed]
      /\ net = [peer |-> [p \in Ports |-> NoJack], numPorts |-> [j \in HubJacks |-> 0],
                totalPorts |-> [h \in Hubs |-> 0], promisc |-> [p \in Ports |-> FALSE]]
  BY DEF Init
<1>2. /\ net \in Net /\ \A p \in Ports : net.peer[p] = NoJack /\ ~net.promisc[p]
  BY <1>1 DEF Net
<1>3. /\ Closed \in File /\ Fits(Closed)
      /\ Closed.pc = "closed" /\ Closed.port = NoPort /\ Closed.call = "none"
  BY DEF Closed, File, Fits, HoldsPc
<1>4. FreePort \in [open : BOOLEAN, interface : Interfaces \cup {NoInterface}]
  BY DEF FreePort
<1>5. \A f \in Files : file[f] = Closed
  BY <1>1
<1>6. TypeOK /\ FilesFit
  BY <1>1, <1>2, <1>3, <1>4, <1>5 DEF TypeOK, FilesFit
<1>7. \A f \in Files : file[f].pc = "closed" /\ file[f].port = NoPort /\ file[f].call = "none"
  BY <1>3, <1>5
<1>8. PortsFit
  BY <1>1, <1>2, <1>7 DEF PortsFit
<1>9. JacksFit /\ HubsFit /\ NoLoops(net, Interface)
  BY <1>1, <1>2, <1>7 DEF JacksFit, PeersOK, Holds, HoldsPc, HubsFit, Maker, At, NoLoops
<1>10. Bound /\ Owned
  BY <1>1, <1>7 DEF Bound, Making, Owned
<1>11. Knowing = {}
  BY <1>1, <1>7 DEF Knowing, At
<1>12. CountsOK(net, Knowing, hubList) /\ PromiscOK(net, Bridges)
  BY <1>1, <1>2, <1>11 DEF CountsOK, PromiscOK
<1> QED
  BY <1>6, <1>8, <1>9, <1>10, <1>12 DEF Inv, Counted, Knowing

\* The types of the state: TypeOK of VNetPorts.
THEOREM TypeCorrect == Spec => []TypeOK
<1>1. Init => Inv /\ Bound
  BY InitHolds
<1>2. Inv /\ Bound /\ [Next]_vars => (Inv /\ Bound)'
  BY NextKept
<1>3. Inv => TypeOK
  BY DEF Inv
<1> QED
  BY <1>1, <1>2, <1>3, PTL DEF Spec

LEMMA HubsHaveJacksHolds ==
  ASSUME Inv, Owned
  PROVE  HubsHaveJacks
<1>1. ASSUME NEW j \in used PROVE j[1] \in hubList /\ Cardinality(Owners(j)) = 1
  <2>1. j[1] \in hubList /\ j \in HubJacks /\ j # NoJack
    BY Jacks DEF Inv, JacksFit, TypeOK
  <2>2. \A f \in Files : f \in Owners(j) <=>
          Holds(f, j) \/ (file[f].port # NoPort /\ net.peer[file[f].port] = j)
    BY DEF Owners, Holds, HoldsPc
  <2>3. \E f \in Files : f \in Owners(j)
    <3>1. CASE \E f \in Files : Holds(f, j)
      BY <2>2, <3>1
    <3>2. ASSUME NEW p \in Ports, net.peer[p] = j PROVE \E f \in Files : f \in Owners(j)
      <4>1. \E f \in Files : file[f].port = p
        BY <2>1, <3>2 DEF Inv, PortsFit
      <4> QED
        BY <2>2, <3>2, <4>1, PortsAssumption
    <3> QED
      BY <1>1, <3>1, <3>2 DEF Owned
  <2>4. \A f, g \in Files : f \in Owners(j) /\ g \in Owners(j) => f = g
    <3> SUFFICES ASSUME NEW f \in Files, NEW g \in Files, f \in Owners(j), g \in Owners(j)
                 PROVE  f = g
      OBVIOUS
    <3>1. /\ file[f].port \in Ports \cup {NoPort} /\ file[g].port \in Ports \cup {NoPort}
      BY Typed DEF Inv
    <3>2. CASE Holds(f, j) /\ Holds(g, j)
      BY <2>1, <3>2 DEF Inv, JacksFit
    <3>3. CASE Holds(f, j) \/ Holds(g, j)
      <4>1. \A p \in Ports : net.peer[p] # j
        BY <2>1, <3>3 DEF Inv, JacksFit
      <4> QED
        BY <2>2, <3>1, <3>2, <4>1
    <3>4. CASE ~Holds(f, j) /\ ~Holds(g, j)
      <4>1. /\ file[f].port \in Ports /\ net.peer[file[f].port] = j
            /\ file[g].port \in Ports /\ net.peer[file[g].port] = j
            /\ file[f].port # NoPort /\ file[g].port # NoPort
        BY <2>2, <3>1, <3>4
      <4>2. file[f].port = file[g].port
        BY <2>1, <4>1 DEF Inv, JacksFit, PeersOK
      <4> QED
        BY <4>1, <4>2 DEF Inv, PortsFit
    <3> QED
      BY <3>2, <3>3, <3>4
  <2>5. PICK f \in Files : f \in Owners(j)
    BY <2>3
  <2>6. Owners(j) = {f}
    BY <2>4, <2>5 DEF Owners
  <2>7. Cardinality(Owners(j)) = 1
    BY <2>6, FS_Singleton
  <2> QED
    BY <2>1, <2>7
<1>2. ASSUME NEW h \in Hubs
      PROVE  /\ number[h] # NoNumber <=> h \in hubList \/ Makers(h) # {}
             /\ h \in hubList => \A g \in hubList : number[g] = number[h] => g = h
  <2>1. Makers(h) # {} <=> \E f \in Files : Maker(f, h)
    BY DEF Makers, Maker
  <2> QED
    BY <2>1 DEF Inv, HubsFit
<1> QED
  BY <1>1, <1>2 DEF HubsHaveJacks

\* A jack that is used has one file and is of a listed hub, memory is of a hub as long
\* as it is listed or in the making, and no two hubs are listed under a number.  Where
\* memory is short a file may lose its connection: a jack that was given up then has
\* no file (VNetSwitchToDifferentPeer).
THEOREM JacksHaveFiles == ~AllocMayFail => (Spec => []HubsHaveJacks)
<1> SUFFICES ASSUME ~AllocMayFail PROVE Spec => []HubsHaveJacks
  OBVIOUS
<1>1. Init => Inv /\ Bound /\ Owned
  BY InitHolds
<1>2. Inv /\ Bound /\ Owned /\ [Next]_vars => (Inv /\ Bound /\ Owned)'
  BY NextKept
<1>3. Inv /\ Bound /\ Owned => HubsHaveJacks
  BY HubsHaveJacksHolds
<1> QED
  BY <1>1, <1>2, <1>3, PTL DEF Spec

\* A file that is open has a connection ("reconnect back to old peer",
\* VNetSwitchToDifferentPeer), where memory is not short.
THEOREM OpenFilesAreConnected == ~AllocMayFail => (Spec => []FilesAreConnected)
<1> SUFFICES ASSUME ~AllocMayFail PROVE Spec => []FilesAreConnected
  OBVIOUS
<1>1. Init => Inv /\ Bound /\ Owned
  BY InitHolds
<1>2. Inv /\ Bound /\ Owned /\ [Next]_vars => (Inv /\ Bound /\ Owned)'
  BY NextKept
<1>3. Inv /\ Bound /\ Owned => FilesAreConnected
  BY PortsAssumption DEF Inv, FilesFit, Fits, Owned, FilesAreConnected, At
<1> QED
  BY <1>1, <1>2, <1>3, PTL DEF Spec

LEMMA PortsAreNotifiedHolds ==
  ASSUME Inv, Counted
  PROVE  PortsAreNotified
<1>0. \A h : ConnectedTo(h) = OnHub(net, h)
  BY DEF ConnectedTo, OnHub
<1>1. ASSUME NEW p \in Ports, net.peer[p] # NoJack
      PROVE  net.numPorts[net.peer[p]] = Cardinality(ConnectedTo(net.peer[p][1]) \ {p})
  <2>1. PeersOK(net) /\ net.peer[p] \in private
    BY <1>1 DEF Inv, JacksFit, PeersOK
  <2>2. net.numPorts[net.peer[p]] = Cardinality(OnHub(net, net.peer[p][1]))
                                      - AttachedPorts(net, net.peer[p])
    BY <2>1 DEF Counted, CountsOK
  <2>3. AttachedPorts(net, net.peer[p]) = 1
    BY <1>1, <2>1, Attached
  <2>4. p \in OnHub(net, net.peer[p][1]) /\ IsFiniteSet(OnHub(net, net.peer[p][1]))
    BY <1>1, OnHubFinite DEF OnHub
  <2>5. Cardinality(OnHub(net, net.peer[p][1]) \ {p}) = Cardinality(OnHub(net, net.peer[p][1])) - 1
    BY <2>4, FS_RemoveElement
  <2> QED
    BY <1>0, <2>2, <2>3, <2>5
<1>2. \A h \in hubList : net.totalPorts[h] = Cardinality(ConnectedTo(h))
  BY <1>0 DEF Counted, CountsOK
<1>3. BridgesListen
  BY <1>0 DEF Counted, PromiscOK, BridgesListen, Bridges
<1> QED
  BY <1>1, <1>2, <1>3 DEF PortsAreNotified, PortCounts

\* What VNetHubPortsChanged tells the ports is true, and a bridge has its device in
\* promiscuous mode while somebody else is on its hub, and only then: where nothing is
\* connected between the two steps that set a jack up (VNetHubAlloc).
THEOREM PortsKnow == InitAlone => (Spec => []PortsAreNotified)
<1> SUFFICES ASSUME InitAlone PROVE Spec => []PortsAreNotified
  OBVIOUS
<1>1. Init => Inv /\ Bound /\ Counted
  BY InitHolds
<1>2. Inv /\ Bound /\ Counted /\ [Next]_vars => (Inv /\ Bound /\ Counted)'
  BY NextKept
<1>3. Inv /\ Bound /\ Counted => PortsAreNotified
  BY PortsAreNotifiedHolds
<1> QED
  BY <1>1, <1>2, <1>3, PTL DEF Spec

-----------------------------------------------------------------------------
(* The refinement *)

Where == [p \in Ports |-> IF net.peer[p] = NoJack THEN NoNumber ELSE number[net.peer[p][1]]]
Receivers == [p \in Ports |-> ReceiveFrom(p)]

\* Ports are on one network when they are on one hub.
LEMMA WhereIs ==
  ASSUME Inv
  PROVE  /\ \A p \in Ports : Where[p] = NoNumber <=> net.peer[p] = NoJack
         /\ \A p, q \in Ports : net.peer[p] # NoJack /\ net.peer[q] # NoJack
              => (Where[p] = Where[q] <=> net.peer[p][1] = net.peer[q][1])
<1>1. \A p \in Ports : net.peer[p] # NoJack =>
        net.peer[p] \in private /\ net.peer[p][1] \in hubList /\ net.peer[p][1] \in Hubs
  BY DEF Inv, JacksFit, PeersOK, TypeOK
<1>2. \A h \in hubList : h \in Hubs /\ number[h] # NoNumber
  BY DEF Inv, HubsFit, TypeOK
<1> QED
  BY <1>1, <1>2 DEF Where, Inv, HubsFit

LEMMA Mapped ==
  ASSUME Inv
  PROVE  Receivers = Switchboard!Reach(Where) /\ Switchboard!NoLoop(Where, Interface)
<1>1. ASSUME NEW p \in Ports
      PROVE  ReceiveFrom(p) = IF Where[p] = NoNumber THEN {}
                              ELSE {q \in Ports : Where[q] = Where[p]} \ {p}
  <2>1. CASE net.peer[p] = NoJack
    BY <2>1, WhereIs DEF ReceiveFrom
  <2>2. CASE net.peer[p] # NoJack
    <3>1. ASSUME NEW q \in Ports
          PROVE  net.peer[q] \in (JacksOf(net.peer[p][1]) \cap private) \ {net.peer[p]}
                   <=> Where[q] = Where[p] /\ q # p
      <4>1. PeersOK(net) /\ net.peer \in [Ports -> HubJacks \cup {NoJack}]
        BY Typed DEF Inv, JacksFit
      <4>2. CASE net.peer[q] = NoJack
        <5>1. NoJack \notin private
          BY Jacks DEF Inv, TypeOK
        <5> QED
          BY <2>2, <4>2, <5>1, WhereIs
      <4>3. CASE net.peer[q] # NoJack
        <5>1. net.peer[q] \in HubJacks /\ net.peer[q] \in private
          BY <4>1, <4>3 DEF PeersOK
        <5>2. net.peer[q] \in JacksOf(net.peer[p][1]) <=> net.peer[q][1] = net.peer[p][1]
          BY <5>1, Jacks
        <5>3. net.peer[q] = net.peer[p] <=> q = p
          BY <2>2, <4>1 DEF PeersOK
        <5>4. Where[q] = Where[p] <=> net.peer[q][1] = net.peer[p][1]
          BY <2>2, <4>3, WhereIs
        <5> QED
          BY <5>1, <5>2, <5>3, <5>4
      <4> QED
        BY <4>2, <4>3
    <3>2. Where[p] # NoNumber
      BY <2>2, WhereIs
    <3> QED
      BY <2>2, <3>1, <3>2 DEF ReceiveFrom
  <2> QED
    BY <2>1, <2>2
<1>2. Receivers = Switchboard!Reach(Where)
  BY <1>1 DEF Receivers, Switchboard!Reach
<1>3. Switchboard!NoLoop(Where, Interface)
  <2> SUFFICES ASSUME NEW p \in Ports, NEW q \in Ports, p # q, Where[p] = Where[q],
                      Where[p] # NoNumber
               PROVE  Interface[p] = NoInterface \/ Interface[p] # Interface[q]
    BY DEF Switchboard!NoLoop
  <2>1. net.peer[p] # NoJack /\ net.peer[q] # NoJack /\ net.peer[p][1] = net.peer[q][1]
    BY WhereIs
  <2> QED
    BY <2>1 DEF Inv, NoLoops
<1> QED
  BY <1>2, <1>3

LEMMA Refines ==
  ASSUME Inv, Bound, [Next]_vars
  PROVE  [Switchboard!Next]_(Switchboard!vars)
<1>0. /\ Inv' /\ Receivers' = Switchboard!Reach(Where)' /\ Switchboard!NoLoop(Where, Interface)'
      /\ Receivers = Switchboard!Reach(Where)
  <2>1. Inv'
    BY NextKept
  <2>2. Receivers = Switchboard!Reach(Where) /\ Switchboard!NoLoop(Where, Interface)
    BY Mapped
  <2>3. (Receivers = Switchboard!Reach(Where) /\ Switchboard!NoLoop(Where, Interface))'
    BY <2>1, Mapped, PTL
  <2> QED
    BY <2>1, <2>2, <2>3
<1>1. ASSUME Where' = Where, Interface' = Interface PROVE UNCHANGED Switchboard!vars
  <2>1. Receivers' = Receivers
    BY <1>0, <1>1 DEF Switchboard!Reach
  <2> QED
    BY <1>1, <2>1 DEF Switchboard!vars, Where, Receivers, Interface
<1>2. ASSUME NEW f \in Files, QuietStep(f) PROVE UNCHANGED Switchboard!vars
  <2>1. /\ net'.peer = net.peer /\ Interface' = Interface
        /\ \A h \in hubList : number'[h] = number[h]
    BY <1>2, QuietIs DEF Quiet, QuietFile
  <2>2. \A p \in Ports : net.peer[p] # NoJack => net.peer[p][1] \in hubList
    BY DEF Inv, JacksFit, PeersOK, TypeOK
  <2>3. Where' = Where
    BY <2>1, <2>2 DEF Where
  <2> QED
    BY <1>1, <2>1, <2>3
<1>3. ASSUME NEW f \in Files, Connects(f) PROVE Switchboard!Next
  <2>1. PICK p \in Ports : Rewires(p)
    BY <1>3, ConnectsKept
  <2>2. number' = number
    BY <1>3, ConnectsKept
  <2>3. CASE \A q \in Ports : q # p => Interface'[q] = Interface[q] /\ net'.peer[q] = net.peer[q]
    <3>1. \A q \in Ports \ {p} : Where'[q] = Where[q] /\ Interface'[q] = Interface[q]
      BY <2>2, <2>3 DEF Where
    <3>2. Switchboard!Move(p)
      BY <1>0, <3>1 DEF Switchboard!Move, Switchboard!Rewire, Switchboard!Reach,
                        Switchboard!NoLoop, Where, Receivers, Interface
    <3> QED
      BY <3>2 DEF Switchboard!Next
  <2>4. ASSUME NEW q \in Ports, NEW i \in Interfaces \cup {NoInterface}, Replaces(p, q, i)
        PROVE  Switchboard!Next
    <3>1. \A e \in Ports \ {p, q} : Where'[e] = Where[e] /\ Interface'[e] = Interface[e]
      BY <2>2, <2>4 DEF Replaces, Where
    <3>2. Where[p] # NoNumber /\ Where[q] = NoNumber
      BY <2>4, WhereIs DEF Replaces
    <3>3. Where' = [Where EXCEPT ![p] = NoNumber, ![q] = Where[p]]
      BY <2>2, <2>4 DEF Replaces, Where
    <3>4. Switchboard!Rewire({p, q})
      BY <1>0, <3>1 DEF Switchboard!Rewire, Switchboard!Reach, Switchboard!NoLoop, Where,
                        Receivers, Interface
    <3>5. Switchboard!Replace(p, q)
      BY <3>2, <3>3, <3>4 DEF Switchboard!Replace, Where
    <3> QED
      BY <3>5 DEF Switchboard!Next
  <2> QED
    BY <2>1, <2>3, <2>4 DEF Rewires
<1>4. CASE UNCHANGED vars
  <2>1. Where' = Where /\ Interface' = Interface
    BY <1>4 DEF vars, Where, Interface
  <2> QED
    BY <1>1, <2>1
<1> QED
  BY <1>2, <1>3, <1>4, NextParts

\* What a port sends reaches the ports on its network and nobody else, and no interface
\* is on a network twice: vmnet implements VNetSwitchboard, short of memory or not.
THEOREM SwitchboardImplemented == Spec => ImplementsSwitchboard
<1>1. Init => Inv /\ Bound
  BY InitHolds
<1>2. Inv /\ Bound /\ [Next]_vars => (Inv /\ Bound)'
  BY NextKept
<1>3. Init => Switchboard!Init
  <2> SUFFICES ASSUME Init PROVE Switchboard!Init
    OBVIOUS
  <2>1. \A p \in Ports : net.peer[p] = NoJack /\ port[p].interface = NoInterface
    BY DEF Init, FreePort
  <2> QED
    BY <2>1 DEF Switchboard!Init, ReceiveFrom
<1>4. Inv /\ Bound /\ [Next]_vars => [Switchboard!Next]_(Switchboard!vars)
  BY Refines
<1> QED
  BY <1>1, <1>2, <1>3, <1>4, PTL DEF Spec, ImplementsSwitchboard, Switchboard!Spec

-----------------------------------------------------------------------------
(* Events: the mechanism of a hub, its senders and its listeners (VNetEvent) *)

\* Where an actor uses the mechanism.
Using == {"member", "calling", "unlinked"}

\* The part of EventTypeOK that the life of the mechanism depends on.
MechanismTypeOK ==
  /\ lock \in Actors \cup {Nobody}
  /\ refCount \in Nat /\ freed \in BOOLEAN
  /\ pc \in [Actors -> Pc]

\* Whoever calls handlers has the lock, and nobody else.
CallersLock == \A a \in Actors : pc[a] = "calling" <=> lock = a

\* The inductive invariant.
EventInv == MechanismTypeOK /\ CallersLock /\ MechanismOutlivesUsers

-----------------------------------------------------------------------------
\* The actors are finitely many.
LEMMA UsersFinite ==
  /\ IsFiniteSet(Users) /\ Cardinality(Users) \in Nat
  /\ IsFiniteSet(Freers) /\ Cardinality(Freers) \in Nat
<1>1. Users \in SUBSET Actors /\ Freers \in SUBSET Actors
  BY DEF Users, Freers
<1>2. IsFiniteSet(Users) /\ IsFiniteSet(Freers)
  BY <1>1, EventAssumption, FS_Subset
<1> QED
  BY <1>2, FS_CardinalityType

\* While anybody uses the mechanism nobody frees it.
LEMMA UsedNotFreed ==
  ASSUME EventInv, NEW a \in Actors, pc[a] \in Using
  PROVE  /\ a \in Users /\ Freers = {} /\ ~freed
         /\ refCount = Cardinality(Users) /\ refCount \in Nat \ {0}
<1>1. a \in Users
  BY DEF Users, Using
<1>2. refCount # 0
  BY <1>1, UsersFinite, FS_EmptySet DEF EventInv, MechanismOutlivesUsers
<1> QED
  BY <1>1, <1>2 DEF EventInv, MechanismOutlivesUsers, MechanismTypeOK

\* An actor that stays a user, or stays none, leaves the count as it is.
LEMMA SameUsers ==
  ASSUME EventInv, NEW a \in Actors, NEW p \in Pc, pc' = [pc EXCEPT ![a] = p],
         p \in Using <=> pc[a] \in Using, p # "last", pc[a] # "last",
         UNCHANGED <<refCount, freed>>
  PROVE  MechanismOutlivesUsers'
<1>1. \A b \in Actors : pc'[b] = IF b = a THEN p ELSE pc[b]
  BY DEF EventInv, MechanismTypeOK
<1>2. Users' = Users
  BY <1>1 DEF Users, Using
<1>3. Freers' = Freers
  BY <1>1 DEF Freers, Is
<1> QED
  BY <1>2, <1>3 DEF EventInv, MechanismOutlivesUsers

\* A new sender or listener is counted.
LEMMA NewUser ==
  ASSUME EventInv, NEW a \in Actors, NEW p \in Using, pc[a] = "absent", pc[Hub] = "member",
         pc' = [pc EXCEPT ![a] = p], refCount' = refCount + 1, freed' = freed
  PROVE  MechanismOutlivesUsers'
<1>1. \A b \in Actors : pc'[b] = IF b = a THEN p ELSE pc[b]
  BY DEF EventInv, MechanismTypeOK
<1>2. Users' = Users \cup {a} /\ a \notin Users
  BY <1>1 DEF Users, Using
<1>3. Cardinality(Users') = Cardinality(Users) + 1
  BY <1>2, UsersFinite, FS_AddElement
<1>4. Freers' = Freers
  BY <1>1 DEF Freers, Is, Using
<1>5. Hub \in Actors
  BY DEF Actors
<1>6. Freers = {} /\ ~freed /\ refCount = Cardinality(Users)
  BY <1>5, UsedNotFreed DEF Using
<1> QED
  BY <1>3, <1>4, <1>6 DEF MechanismOutlivesUsers

\* The initial state satisfies the invariant: the hub is the only user.
LEMMA EventInitInv == EventInit => EventInv
<1> SUFFICES ASSUME EventInit PROVE EventInv
  OBVIOUS
<1>1. Hub \in Actors
  BY DEF Actors
<1>2. MechanismTypeOK /\ CallersLock
  BY EventAssumption DEF EventInit, MechanismTypeOK, CallersLock, Pc
<1>3. Users = {Hub} /\ Freers = {}
  BY <1>1 DEF EventInit, Users, Freers, Is
<1>4. Cardinality({Hub}) = 1
  BY FS_Singleton
<1> QED
  BY <1>2, <1>3, <1>4 DEF EventInv, MechanismOutlivesUsers, EventInit

\* Senders and listeners come, send and leave their lists.
LEMMA ActorInv ==
  ASSUME EventInv, NEW a \in Actors,
         \/ a \in Senders /\ (CreateSender(a) \/ Send(a) \/ UnlinkSender(a))
         \/ a \in Listeners /\ (CreateListener(a) \/ UnlinkListener(a))
  PROVE  EventInv'
<1>1. CASE CreateSender(a)
  <2>1. /\ pc[a] = "absent" /\ pc[Hub] = "member" /\ lock = Nobody /\ lock' = lock
        /\ refCount' = refCount + 1 /\ freed' = freed /\ pc' = [pc EXCEPT ![a] = "member"]
    BY <1>1 DEF CreateSender, Is, Becomes
  <2>2. MechanismTypeOK' /\ CallersLock'
    BY <2>1 DEF EventInv, MechanismTypeOK, CallersLock, Pc
  <2>3. MechanismOutlivesUsers'
    BY <2>1, NewUser DEF Using
  <2> QED
    BY <2>2, <2>3 DEF EventInv
<1>2. CASE CreateListener(a)
  <2>1. /\ pc[a] = "absent" /\ pc[Hub] = "member" /\ lock = Nobody /\ lock' = a
        /\ refCount' = refCount + 1 /\ freed' = freed /\ pc' = [pc EXCEPT ![a] = "calling"]
    BY <1>2 DEF CreateListener, Is, Becomes
  <2>2. MechanismTypeOK' /\ CallersLock'
    BY <2>1, EventAssumption DEF EventInv, MechanismTypeOK, CallersLock, Pc
  <2>3. MechanismOutlivesUsers'
    BY <2>1, NewUser DEF Using
  <2> QED
    BY <2>2, <2>3 DEF EventInv
<1>3. CASE Send(a)
  <2>1. /\ pc[a] = "member" /\ lock = Nobody /\ lock' = a
        /\ UNCHANGED <<refCount, freed>> /\ pc' = [pc EXCEPT ![a] = "calling"]
    BY <1>3 DEF Send, Is, Becomes
  <2>2. MechanismTypeOK' /\ CallersLock'
    BY <2>1, EventAssumption DEF EventInv, MechanismTypeOK, CallersLock, Pc
  <2>3. MechanismOutlivesUsers'
    BY <2>1, SameUsers DEF Using, Pc
  <2> QED
    BY <2>2, <2>3 DEF EventInv
<1>4. CASE UnlinkSender(a) \/ UnlinkListener(a)
  <2>1. /\ pc[a] = "member" /\ lock = Nobody /\ lock' = lock
        /\ UNCHANGED <<refCount, freed>> /\ pc' = [pc EXCEPT ![a] = "unlinked"]
    BY <1>4 DEF UnlinkSender, UnlinkListener, Is, Becomes
  <2>2. MechanismTypeOK' /\ CallersLock'
    BY <2>1, EventAssumption DEF EventInv, MechanismTypeOK, CallersLock, Pc
  <2>3. MechanismOutlivesUsers'
    BY <2>1, SameUsers DEF Using, Pc
  <2> QED
    BY <2>2, <2>3 DEF EventInv
<1> QED
  BY <1>1, <1>2, <1>3, <1>4

\* A reference is dropped, by the hub or by one that has left its list.
LEMMA DestroyInv ==
  ASSUME EventInv, NEW a \in Actors, DestroyMechanism(a)
  PROVE  EventInv'
<1> DEFINE p == IF refCount = 1 THEN "last" ELSE "dropped"
<1>1. /\ pc[a] \in {"unlinked", "member"} /\ lock = Nobody /\ lock' = lock
      /\ refCount' = refCount - 1 /\ freed' = freed /\ pc' = [pc EXCEPT ![a] = p]
  BY DEF DestroyMechanism, Is, Becomes
<1>2. /\ a \in Users /\ Freers = {} /\ ~freed
      /\ refCount = Cardinality(Users) /\ refCount \in Nat \ {0}
  BY <1>1, UsedNotFreed DEF Using
<1>3. MechanismTypeOK' /\ CallersLock'
  BY <1>1, <1>2, EventAssumption DEF EventInv, MechanismTypeOK, CallersLock, Pc
<1>4. \A b \in Actors : pc'[b] = IF b = a THEN p ELSE pc[b]
  BY <1>1 DEF EventInv, MechanismTypeOK
<1>5. Users' = Users \ {a}
  BY <1>4 DEF Users
<1>6. Cardinality(Users') = Cardinality(Users) - 1
  BY <1>2, <1>5, UsersFinite, FS_RemoveElement
<1>7. CASE refCount # 1
  <2>1. Freers' = {}
    BY <1>2, <1>4, <1>7 DEF Freers, Is
  <2> QED
    BY <1>1, <1>2, <1>3, <1>6, <2>1 DEF EventInv, MechanismOutlivesUsers
<1>8. CASE refCount = 1
  <2>1. Freers' = {a}
    BY <1>2, <1>4, <1>8 DEF Freers, Is
  <2>2. Cardinality({a}) = 1
    BY FS_Singleton
  <2>3. Users' = {}
    <3>1. PICK b : Users = {b}
      BY <1>2, <1>8, UsersFinite, FS_Singleton
    <3> QED
      BY <1>2, <1>5, <3>1
  <2> QED
    BY <1>1, <1>2, <1>3, <1>6, <2>1, <2>2, <2>3 DEF EventInv, MechanismOutlivesUsers
<1> QED
  BY <1>7, <1>8

\* The last one frees the mechanism, which nobody uses.
LEMMA FreeInv ==
  ASSUME EventInv, NEW a \in Actors, FreeMechanism(a)
  PROVE  EventInv'
<1>1. /\ pc[a] = "last" /\ lock' = lock /\ refCount' = refCount /\ freed' = TRUE
      /\ pc' = [pc EXCEPT ![a] = "dropped"]
  BY DEF FreeMechanism, Is, Becomes
<1>2. a \in Freers
  BY <1>1 DEF Freers, Is
<1>3. /\ Users = {} /\ Cardinality(Freers) = 1 /\ refCount = Cardinality(Users)
  BY <1>2 DEF EventInv, MechanismOutlivesUsers
<1>4. Freers = {a}
  BY <1>2, <1>3, UsersFinite, FS_Singleton
<1>5. MechanismTypeOK' /\ CallersLock'
  BY <1>1 DEF EventInv, MechanismTypeOK, CallersLock, Pc
<1>6. \A b \in Actors : pc'[b] = IF b = a THEN "dropped" ELSE pc[b]
  BY <1>1 DEF EventInv, MechanismTypeOK
<1>7. Users' = {} /\ Freers' = {}
  BY <1>3, <1>4, <1>6 DEF Users, Freers, Is
<1> QED
  BY <1>1, <1>3, <1>5, <1>7 DEF EventInv, MechanismOutlivesUsers

\* The calls of the handlers, and what an actor does after its reference is gone.
LEMMA ContinueInv ==
  ASSUME EventInv, NEW a \in Actors, Continue(a)
  PROVE  EventInv'
<1>1. CASE HandlerAppends(a) \/ HandlerWakes(a)
  <2>1. UNCHANGED <<lock, refCount, freed, pc>>
    BY <1>1 DEF HandlerAppends, HandlerWakes, mechanismVars
  <2> QED
    BY <2>1 DEF EventInv, MechanismTypeOK, CallersLock, MechanismOutlivesUsers, Users, Freers, Is
<1>2. CASE CallsDone(a)
  <2>1. /\ lock = a /\ lock' = Nobody /\ UNCHANGED <<refCount, freed>>
        /\ pc[a] = "calling" /\ pc' = [pc EXCEPT ![a] = "member"]
    BY <1>2 DEF CallsDone, Becomes, EventInv, CallersLock
  <2>2. MechanismTypeOK' /\ CallersLock'
    BY <2>1, EventAssumption DEF EventInv, MechanismTypeOK, CallersLock, Pc
  <2>3. MechanismOutlivesUsers'
    BY <2>1, SameUsers DEF Using, Pc
  <2> QED
    BY <2>2, <2>3 DEF EventInv
<1>3. CASE FreeMechanism(a)
  BY <1>3, FreeInv
<1>4. CASE FreeActor(a)
  <2>1. /\ lock' = lock /\ UNCHANGED <<refCount, freed>>
        /\ pc[a] = "dropped" /\ pc' = [pc EXCEPT ![a] = "gone"]
    BY <1>4 DEF FreeActor, Is, Becomes
  <2>2. MechanismTypeOK' /\ CallersLock'
    BY <2>1 DEF EventInv, MechanismTypeOK, CallersLock, Pc
  <2>3. MechanismOutlivesUsers'
    BY <2>1, SameUsers DEF Using, Pc
  <2> QED
    BY <2>2, <2>3 DEF EventInv
<1>5. CASE DestroyMechanism(a)
  BY <1>5, DestroyInv
<1> QED
  BY <1>1, <1>2, <1>3, <1>4, <1>5 DEF Continue

-----------------------------------------------------------------------------
\* Every step preserves the invariant; a reader's does not touch it.
LEMMA EventNextInv == EventInv /\ [EventNext]_eventVars => EventInv'
<1> SUFFICES ASSUME EventInv, [EventNext]_eventVars PROVE EventInv'
  OBVIOUS
<1>1. ASSUME NEW s \in Senders, CreateSender(s) \/ Send(s) \/ UnlinkSender(s) PROVE EventInv'
  <2>1. s \in Actors
    BY DEF Actors
  <2> QED
    BY <1>1, <2>1, ActorInv
<1>2. ASSUME NEW l \in Listeners, CreateListener(l) \/ UnlinkListener(l) PROVE EventInv'
  <2>1. l \in Actors
    BY DEF Actors
  <2> QED
    BY <1>2, <2>1, ActorInv
<1>3. CASE DestroyMechanism(Hub)
  <2>1. Hub \in Actors
    BY DEF Actors
  <2> QED
    BY <1>3, <2>1, DestroyInv
<1>4. ASSUME NEW a \in Actors, Continue(a) PROVE EventInv'
  BY <1>4, ContinueInv
<1>5. ASSUME UNCHANGED <<lock, refCount, freed, pc>> PROVE EventInv'
  BY <1>5 DEF EventInv, MechanismTypeOK, CallersLock, MechanismOutlivesUsers, Users, Freers, Is
<1>6. ASSUME NEW r \in Readers,
             ReaderContinues(r) \/ Interrupted(r) \/ \E l \in Listeners : Read(r, l)
      PROVE  EventInv'
  <2>1. UNCHANGED <<lock, mechanismVars>>
    BY <1>6 DEF ReaderContinues, Interrupted, Read, Dequeue, FindNothing, Wait
  <2> QED
    BY <1>5, <2>1 DEF mechanismVars
<1>7. CASE UNCHANGED eventVars
  BY <1>5, <1>7 DEF eventVars
<1> QED
  BY <1>1, <1>2, <1>3, <1>4, <1>6, <1>7 DEF EventNext

LEMMA EventInvHolds == EventSpec => []EventInv
  BY EventInitInv, EventNextInv, PTL DEF EventSpec

\* In whatever order the hub, the bridges and the listeners of user processes
\* go, the mechanism is freed once, by whoever drops the last reference, and
\* nobody uses it then or later.
THEOREM MechanismIsFreedLast == EventSpec => []MechanismOutlivesUsers
<1>1. EventInv => MechanismOutlivesUsers
  BY DEF EventInv
<1> QED
  BY <1>1, EventInvHolds, PTL

\* No two actors call handlers at once: whoever does has the mechanism's lock.
THEOREM HandlersAreSerialized == EventSpec => [](\A a \in Actors : Is(a, "calling") <=> lock = a)
<1>1. EventInv => \A a \in Actors : Is(a, "calling") <=> lock = a
  BY DEF EventInv, CallersLock, Is
<1> QED
  BY <1>1, EventInvHolds, PTL
=============================================================================
