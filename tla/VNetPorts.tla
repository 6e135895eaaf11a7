------------------------------ MODULE VNetPorts ------------------------------
(***************************************************************************)
(* Ports and hubs of vmnet: linux/driver.c (open, close, bind, and the     *)
(* ioctls that put another port in the place of one), and hub.c.           *)
(*                                                                         *)
(* An open file has a port, the port a jack whose peer is a jack of a hub. *)
(* A hub is made by the first file that wants its number and freed with    *)
(* its last jack.  vnetHubLock protects the list of hubs and which jacks   *)
(* are used, vnetStructureMutex the connections and the numbers of ports   *)
(* behind each jack; but a jack of a hub is set up, and taken out of use,  *)
(* under neither.                                                          *)
(***************************************************************************)
EXTENDS Integers, FiniteSets

CONSTANTS
  Files, Ports, Interfaces,
  Hubs,             \* memory of hubs
  Numbers,          \* of networks
  JackCount,        \* NUM_JACKS_PER_HUB
  NoFile, NoPort, NoInterface, NoHub, NoNumber,
  InitAlone,        \* no port is connected or disconnected while a jack is set up
  AllocMayFail      \* may the cycle detection find no memory?

ASSUME PortsAssumption ==
         /\ JackCount \in Nat \ {0} /\ IsFiniteSet(Ports)
         /\ NoFile \notin Files /\ NoPort \notin Ports /\ NoInterface \notin Interfaces
         /\ NoHub \notin Hubs /\ NoNumber \notin Numbers
         /\ InitAlone \in BOOLEAN /\ AllocMayFail \in BOOLEAN

HubJacks == Hubs \X (1..JackCount)
NoJack == <<NoHub, 0>>

VARIABLES
  hubList,          \* SUBSET Hubs: vnetHub
  number,           \* [Hubs -> Numbers \cup {NoNumber}]: NoNumber if free memory
  used,             \* SUBSET HubJacks
  private,          \* SUBSET HubJacks: those whose private is set
  port,             \* [Ports -> [open : BOOLEAN, interface]]
  net,              \* what vnetStructureMutex protects: see Net
  leaked,           \* an event mechanism has lost its hub and is never destroyed
  ioctl,            \* the file that has vnetMutex
  file              \* [Files -> File]

vars == <<hubList, number, used, private, port, net, leaked, ioctl, file>>

-----------------------------------------------------------------------------
\* The peer of a port is the jack it is connected to; promisc is enabledPromisc
\* of a bridge, whose device is taken to be up.
Net == [peer : [Ports -> HubJacks \cup {NoJack}],
        numPorts : [HubJacks -> Int],
        totalPorts : [Hubs -> Nat],
        promisc : [Ports -> BOOLEAN]]

\* find ... private: VNetHubAlloc; connect: with the jack; undo, unuse, kfree:
\* VNetHubFree; call: "open", "bind", "replace" or "close".
File == [pc : {"closed", "find", "add", "entry", "private", "connect",
               "ready", "clear", "unuse", "kfree"},
         call : {"none", "open", "bind", "replace", "close"},
         port : Ports \cup {NoPort},
         want : Numbers \cup {NoNumber},
         jack : HubJacks \cup (Hubs \X {0}) \cup {NoJack}]

Closed == [pc |-> "closed", call |-> "none", port |-> NoPort, want |-> NoNumber, jack |-> NoJack]
FreePort == [open |-> FALSE, interface |-> NoInterface]

Init ==
  /\ hubList = {}
  /\ number = [h \in Hubs |-> NoNumber]
  /\ used = {}
  /\ private = {}
  /\ port = [p \in Ports |-> FreePort]
  /\ net = [peer |-> [p \in Ports |-> NoJack], numPorts |-> [j \in HubJacks |-> 0],
            totalPorts |-> [h \in Hubs |-> 0], promisc |-> [p \in Ports |-> FALSE]]
  /\ leaked = FALSE
  /\ ioctl = NoFile
  /\ file = [f \in Files |-> Closed]

At(f, pc) == file[f].pc = pc
Goto(f, pc) == file' = [file EXCEPT ![f].pc = pc]
IsBridge(p) == port[p].interface # NoInterface
JacksOf(h) == {h} \X (1..JackCount)

-----------------------------------------------------------------------------
(* Connections, under vnetStructureMutex *)

\* VNetGetAttachedPorts of a jack of a hub: every port counts for one.
AttachedPorts(n, j) == Cardinality({p \in Ports : n.peer[p] = j})

\* Mutant: the jack that changed is counted as before.
HubPortsChangedStale(n, j) ==
  LET mine == JacksOf(j[1]) \cap private
      total == Cardinality({p \in Ports : n.peer[p] \in mine \ {j}})
      num == [k \in HubJacks |-> IF k \in mine \ {j} THEN total - AttachedPorts(n, k)
                                 ELSE n.numPorts[k]]
  IN  [n EXCEPT !.totalPorts[j[1]] = total, !.numPorts = num,
                !.promisc = [p \in Ports |-> IF n.peer[p] \in mine \ {j} /\ IsBridge(p)
                                             THEN num[n.peer[p]] # 0 ELSE n.promisc[p]]]

\* VNetHubPortsChanged from jack j: j's own number is only compared, and the
\* bridges at the other jacks turn promiscuous, or not any more.
HubPortsChanged(n, j) ==
  LET mine == JacksOf(j[1]) \cap private
      total == Cardinality({p \in Ports : n.peer[p] \in mine})
      num == [k \in HubJacks |-> IF k \in mine \ {j} THEN total - AttachedPorts(n, k)
                                 ELSE n.numPorts[k]]
  IN  [n EXCEPT !.totalPorts[j[1]] = total, !.numPorts = num,
                !.promisc = [p \in Ports |-> IF n.peer[p] \in mine \ {j} /\ IsBridge(p)
                                             THEN num[n.peer[p]] # 0 ELSE n.promisc[p]]]

\* VNetConnect after the detection of cycles, of a port with or without a
\* bridge.  The order of its arguments makes no difference.
Connected(n, p, bridge, j) ==
  LET m == HubPortsChanged([n EXCEPT !.peer[p] = j], j)
  IN  [m EXCEPT !.promisc[p] = @ \/ (bridge /\ n.numPorts[j] # 0)]

\* VNetDisconnect.  A bridge without a peer has no ports attached.
Disconnected(n, p) ==
  LET j == n.peer[p]
      m == HubPortsChanged([n EXCEPT !.peer[p] = NoJack], j)
  IN  [m EXCEPT !.promisc[p] = @ /\ n.numPorts[j] = 0]

\* The ports VNetHubCycleDetect comes to from jack j.
Neighbours(n, j) == {q \in Ports : n.peer[q] \in (JacksOf(j[1]) \cap private) \ {j}}

\* VNetCycleDetect in a fresh generation, from a port with interface i and from
\* jack j: an interface is met twice, or there is no memory to note that it was
\* met.
Cycles(n, i, j) ==
  LET met == {q \in Neighbours(n, j) : IsBridge(q)}
      twice == \/ \E q \in met : port[q].interface = i
               \/ \E q, r \in met : q # r /\ port[q].interface = port[r].interface
  IN  IF twice THEN {TRUE}
      ELSE IF AllocMayFail /\ (met # {} \/ i # NoInterface) THEN BOOLEAN ELSE {FALSE}

\* Nobody is between the two steps that set a jack up.
MayConnect == InitAlone => \A f \in Files : ~At(f, "private")

-----------------------------------------------------------------------------
(* VNetHubAlloc *)

Listed(n) == {h \in hubList : number[h] = n}

\* No jack: an open fails and frees its port, a bind leaves things as they are.
AllocFails(f) ==
  IF file[f].call = "open"
  THEN /\ port' = [port EXCEPT ![file[f].port] = FreePort]
       /\ file' = [file EXCEPT ![f] = Closed]
       /\ UNCHANGED ioctl
  ELSE /\ file' = [file EXCEPT ![f] = [Closed EXCEPT !.pc = "ready", !.port = file[f].port]]
       /\ ioctl' = NoFile
       /\ UNCHANGED port

\* The first jack that is not used, under vnetHubLock.
ClaimJack(f, h) ==
  LET free == {i \in 1..JackCount : <<h, i>> \notin used}
  IN  \/ \E i \in free :
           /\ \A k \in free : i <= k
           /\ used' = used \cup {<<h, i>>}
           /\ file' = [file EXCEPT ![f].jack = <<h, i>>, ![f].pc = "entry"]
           /\ UNCHANGED <<port, ioctl>>
      \/ free = {} /\ AllocFails(f) /\ UNCHANGED used

FindHub(f) ==
  /\ At(f, "find")
  /\ \/ \E h \in Listed(file[f].want) :
          ClaimJack(f, h) /\ UNCHANGED number
     \/ \E h \in Hubs :
          /\ Listed(file[f].want) = {}
          /\ number[h] = NoNumber
          /\ number' = [number EXCEPT ![h] = file[f].want]
          /\ file' = [file EXCEPT ![f].jack = <<h, 0>>, ![f].pc = "add"]
          /\ UNCHANGED <<used, port, ioctl>>
  /\ UNCHANGED <<hubList, private, net, leaked>>

\* Mutant: the list is not searched again.
AddHubUnseen(f) ==
  LET own == file[f].jack[1]
  IN  /\ At(f, "add")
      /\ hubList' = hubList \cup {own}
      /\ UNCHANGED number
      /\ net' = [net EXCEPT !.totalPorts[own] = 0]
      /\ ClaimJack(f, own)
      /\ UNCHANGED <<private, leaked>>

\* Whoever was faster has listed a hub of that number; its own one is freed
\* then, without its event mechanism.
AddHub(f) ==
  LET own == file[f].jack[1]
      found == Listed(file[f].want)
  IN  /\ At(f, "add")
      /\ \/ \E h \in found :
              /\ number' = [number EXCEPT ![own] = NoNumber]
              /\ leaked' = TRUE
              /\ ClaimJack(f, h)
              /\ UNCHANGED <<hubList, net>>
         \/ /\ found = {}
            /\ hubList' = hubList \cup {own}
            /\ net' = [net EXCEPT !.totalPorts[own] = 0]
            /\ ClaimJack(f, own)
            /\ UNCHANGED <<number, leaked>>
      /\ UNCHANGED private

\* The number of ports is read without vnetStructureMutex.
InitJack(f) ==
  /\ At(f, "entry")
  /\ net' = [net EXCEPT !.numPorts[file[f].jack] = net.totalPorts[file[f].jack[1]]]
  /\ Goto(f, "private")
  /\ UNCHANGED <<hubList, number, used, private, port, leaked, ioctl>>

SetPrivate(f) ==
  /\ At(f, "private")
  /\ private' = private \cup {file[f].jack}
  /\ Goto(f, "connect")
  /\ UNCHANGED <<hubList, number, used, port, net, leaked, ioctl>>

\* VNetProc_MakeEntry fails: a hub made for this jack stays on the list.
EntryFails(f) ==
  /\ At(f, "entry")
  /\ used' = used \ {file[f].jack}
  /\ AllocFails(f)
  /\ UNCHANGED <<hubList, number, private, net, leaked>>

-----------------------------------------------------------------------------
(* VNetHubFree *)

\* The call returns, and an ioctl releases vnetMutex.
Return(f) ==
  /\ file' = [file EXCEPT ![f] = IF @.port = NoPort THEN Closed
                                 ELSE [Closed EXCEPT !.pc = "ready", !.port = file[f].port]]
  /\ ioctl' = IF ioctl = f THEN NoFile ELSE ioctl

ClearPrivate(f) ==
  /\ At(f, "clear")
  /\ private' = private \ {file[f].jack}
  /\ Goto(f, "unuse")
  /\ UNCHANGED <<hubList, number, used, port, net, leaked, ioctl>>

\* Under vnetHubLock; with the last jack the hub leaves the list.
UnuseJack(f) ==
  LET j == file[f].jack
      others == (JacksOf(j[1]) \cap used) \ {j}
  IN  /\ At(f, "unuse")
      /\ used' = used \ {j}
      /\ \/ others # {} /\ Return(f) /\ UNCHANGED hubList
         \/ others = {} /\ hubList' = hubList \ {j[1]} /\ Goto(f, "kfree") /\ UNCHANGED ioctl
      /\ UNCHANGED <<number, private, port, net, leaked>>

FreeHub(f) ==
  /\ At(f, "kfree")
  /\ number' = [number EXCEPT ![file[f].jack[1]] = NoNumber]
  /\ Return(f)
  /\ UNCHANGED <<hubList, used, private, port, net, leaked>>

-----------------------------------------------------------------------------
(* Calls *)

\* VNetFileOpOpen: a port of the user interface, then a jack of the hub.
Open(f, n) ==
  /\ At(f, "closed")
  /\ \E p \in Ports :
       /\ ~port[p].open
       /\ port' = [port EXCEPT ![p].open = TRUE]
       /\ file' = [file EXCEPT ![f] = [pc |-> "find", call |-> "open", port |-> p, want |-> n,
                                       jack |-> NoJack]]
  /\ UNCHANGED <<hubList, number, used, private, net, leaked, ioctl>>

OpenConnects(f) ==
  LET p == file[f].port
      j == file[f].jack
  IN  /\ At(f, "connect") /\ file[f].call = "open"
      /\ MayConnect
      /\ \E cycle \in Cycles(net, NoInterface, j) :
           \/ /\ ~cycle
              /\ net' = Connected(net, p, FALSE, j)
              /\ Return(f)
              /\ UNCHANGED port
           \/ /\ cycle
              /\ port' = [port EXCEPT ![p] = FreePort]
              /\ file' = [file EXCEPT ![f].port = NoPort, ![f].pc = "clear"]
              /\ UNCHANGED <<net, ioctl>>
      /\ UNCHANGED <<hubList, number, used, private, leaked>>

\* The ioctls of an open file, one at a time because of vnetMutex.
MayCall(f) == At(f, "ready") /\ ioctl = NoFile /\ net.peer[file[f].port] # NoJack

\* SIOCSBIND.
Bind(f, n) ==
  /\ MayCall(f)
  /\ ioctl' = f
  /\ file' = [file EXCEPT ![f].pc = "find", ![f].call = "bind", ![f].want = n]
  /\ UNCHANGED <<hubList, number, used, private, port, net, leaked>>

\* The port of f is connected to jack j again, after another connection could
\* not be made, unless that fails as well.
Reconnected(n, f, j) ==
  LET p == file[f].port
  IN  {IF cycle THEN n ELSE Connected(n, p, IsBridge(p), j) :
         cycle \in Cycles(n, port[p].interface, j)}

\* Mutant: a cycle is not looked for.
BindSwitchesUnseen(f) ==
  LET p == file[f].port
      new == file[f].jack
      old == net.peer[p]
      apart == Disconnected(net, p)
  IN  /\ At(f, "connect") /\ file[f].call = "bind"
      /\ MayConnect
      /\ net' = Connected(apart, p, IsBridge(p), new)
      /\ file' = [file EXCEPT ![f].jack = old, ![f].pc = "clear"]
      /\ UNCHANGED <<hubList, number, used, private, port, leaked, ioctl>>

\* VNetSwitchToDifferentPeer to another jack.  If that makes a cycle the port
\* is connected to its old jack again, and the new one freed.
BindSwitches(f) ==
  LET p == file[f].port
      new == file[f].jack
      old == net.peer[p]
      apart == Disconnected(net, p)
  IN  /\ At(f, "connect") /\ file[f].call = "bind"
      /\ MayConnect
      /\ \E cycle \in Cycles(apart, port[p].interface, new) :
           \/ /\ ~cycle
              /\ net' = Connected(apart, p, IsBridge(p), new)
              /\ file' = [file EXCEPT ![f].jack = old, ![f].pc = "clear"]
           \/ /\ cycle
              /\ net' \in Reconnected(apart, f, old)
              /\ Goto(f, "clear")
      /\ UNCHANGED <<hubList, number, used, private, port, leaked, ioctl>>

\* SIOCSPEER, SIOCPORT and the like: a new port q with interface i takes the
\* place of the file's at its jack, or is freed again.  A bridge that is freed
\* leaves the promiscuous mode.
ReplacePort(f, q, i) ==
  LET p == file[f].port
      j == net.peer[p]
      apart == Disconnected(net, p)
  IN  /\ MayCall(f)
      /\ ~port[q].open
      /\ MayConnect
      /\ \E cycle \in Cycles(apart, i, j) :
           \/ /\ ~cycle
              /\ net' = [Connected(apart, q, i # NoInterface, j) EXCEPT !.promisc[p] = FALSE]
              /\ port' = [port EXCEPT ![p] = FreePort, ![q] = [open |-> TRUE, interface |-> i]]
              /\ file' = [file EXCEPT ![f].port = q]
           \/ /\ cycle
              /\ net' \in Reconnected(apart, f, j)
              /\ UNCHANGED <<port, file>>
      /\ UNCHANGED <<hubList, number, used, private, leaked, ioctl>>

\* VNetFileOpClose up to the release of the hub's jack, if there is one.
Close(f) ==
  LET p == file[f].port
      j == net.peer[p]
      apart == IF j = NoJack THEN net ELSE Disconnected(net, p)
  IN  /\ At(f, "ready")
      /\ MayConnect
      /\ net' = [apart EXCEPT !.promisc[p] = FALSE]
      /\ port' = [port EXCEPT ![p] = FreePort]
      /\ file' = [file EXCEPT ![f] = IF j = NoJack THEN Closed
                                     ELSE [Closed EXCEPT !.pc = "clear", !.call = "close", !.jack = j]]
      /\ UNCHANGED <<hubList, number, used, private, leaked, ioctl>>

-----------------------------------------------------------------------------
Next ==
  \E f \in Files :
    \/ \E n \in Numbers : Open(f, n) \/ Bind(f, n)
    \/ \E q \in Ports, i \in Interfaces \cup {NoInterface} : ReplacePort(f, q, i)
    \/ FindHub(f) \/ AddHub(f) \/ EntryFails(f) \/ InitJack(f) \/ SetPrivate(f)
    \/ OpenConnects(f) \/ BindSwitches(f) \/ Close(f)
    \/ ClearPrivate(f) \/ UnuseJack(f) \/ FreeHub(f)

Spec == Init /\ [][Next]_vars

-----------------------------------------------------------------------------
(* Properties *)

\* Type invariant.
TypeOK ==
  /\ hubList \subseteq Hubs
  /\ number \in [Hubs -> Numbers \cup {NoNumber}]
  /\ used \subseteq HubJacks
  /\ private \subseteq used
  /\ port \in [Ports -> [open : BOOLEAN, interface : Interfaces \cup {NoInterface}]]
  /\ net \in Net
  /\ leaked \in BOOLEAN
  /\ ioctl \in Files \cup {NoFile}
  /\ file \in [Files -> File]

\* What a port sends reaches the ports on its network and nobody else, whatever
\* hubs and jacks are made and freed meanwhile, and the cycle detection keeps
\* an interface from being on a network twice.  VNetHubReceive passes a packet
\* to the peers of the other jacks that are private.
ReceiveFrom(p) ==
  IF net.peer[p] = NoJack THEN {}
  ELSE {q \in Ports : net.peer[q] \in (JacksOf(net.peer[p][1]) \cap private) \ {net.peer[p]}}

Switchboard == INSTANCE VNetSwitchboard WITH
  Port <- Ports, Network <- Numbers, NoNetwork <- NoNumber, NoInterface <- NoInterface,
  where <- [p \in Ports |-> IF net.peer[p] = NoJack THEN NoNumber ELSE number[net.peer[p][1]]],
  interface <- [p \in Ports |-> port[p].interface],
  receivers <- [p \in Ports |-> ReceiveFrom(p)]

ImplementsSwitchboard == Switchboard!Spec

\* Every port knows how many others are on its hub, which VNetHubPortsChanged
\* tests ("basically an assert failure", hub.c), and the hub how many in all.
ConnectedTo(h) == {p \in Ports : net.peer[p] # NoJack /\ net.peer[p][1] = h}

PortCounts ==
  /\ \A p \in Ports : net.peer[p] # NoJack =>
       net.numPorts[net.peer[p]] = Cardinality(ConnectedTo(net.peer[p][1]) \ {p})
  /\ \A h \in hubList : net.totalPorts[h] = Cardinality(ConnectedTo(h))

BridgesListen ==
  \A p \in Ports :
    net.promisc[p] <=> /\ IsBridge(p) /\ net.peer[p] # NoJack
                       /\ ConnectedTo(net.peer[p][1]) # {p}

\* What VNetHubPortsChanged tells the ports when others come and go is true:
\* their counts, and a bridge has its device in promiscuous mode while somebody
\* else is on its hub, and only then.
PortsAreNotified == PortCounts /\ BridgesListen

\* A jack that is used is of a listed hub and has one file, that has its port on
\* it or is to connect or to free it; memory is of a hub as long as the hub is
\* listed or in the making; and no two hubs are listed under a number.
Owners(j) == {f \in Files : \/ file[f].jack = j /\ file[f].pc \in
                                 {"entry", "private", "connect", "clear", "unuse"}
                            \/ file[f].port # NoPort /\ net.peer[file[f].port] = j}
Makers(h) == {f \in Files : file[f].jack[1] = h /\ file[f].pc \in {"add", "kfree"}}

HubsHaveJacks ==
  /\ \A j \in used : j[1] \in hubList /\ Cardinality(Owners(j)) = 1
  /\ \A h \in Hubs :
       /\ number[h] # NoNumber <=> h \in hubList \/ Makers(h) # {}
       /\ h \in hubList => \A g \in hubList : number[g] = number[h] => g = h

\* An open file has a connection (VNetSwitchToDifferentPeer: "reconnect back to
\* old peer").
FilesAreConnected ==
  \A f \in Files : At(f, "ready") => net.peer[file[f].port] # NoJack

\* A listed hub has a jack that is used, with which it will go.
EmptyHubsAreFreed == \A h \in hubList : JacksOf(h) \cap used # {}

\* The event mechanism of a hub goes with it ("Free our structure and use already
\* present hub", hub.c).
MechanismsAreDestroyed == ~leaked
=============================================================================
