--------------------------- MODULE VSockHandshake ---------------------------
(***************************************************************************)
(* How stream sockets of vsock get connected: linux/af_vsock.c, with the   *)
(* tables and lists of util.c.                                             *)
(*                                                                         *)
(* Clients connect to one listener.  REQUEST, NEGOTIATE, OFFER and ATTACH  *)
(* make a connection; the listener keeps a child socket for it on its      *)
(* pending list, then in its accept queue.  A packet that arrives is given *)
(* to the socket found for it then, and worked on later; works overtake    *)
(* each other.  Every child has a timer that cleans up if it is still      *)
(* pending, and reference counts say when it is freed.  The end of a       *)
(* socket detaches from the queue pair, of which VMCI tells the peer.      *)
(*                                                                         *)
(* A client allocates a queue pair once in its life, so the handle that a  *)
(* packet names is known from its client.  What is sent over a connection, *)
(* and shutdown, are left out; see VSockNotify.                            *)
(***************************************************************************)
EXTENDS Integers, Sequences, FiniteSets, SequencesExt

CONSTANTS
  Clients, Children,
  Listener, NoClient,
  MaxBacklog,       \* sk_max_ack_backlog
  MaxConnects,      \* calls of connect a client makes, a bound for TLC
  May               \* what the environment does, see Environment

Environment ==
  {"give_up",       \* connect is interrupted or times out, or its socket is closed
   "lapse",         \* the same, when the other end is connected already
   "refuse",        \* a client does not like the size, or finds no memory
   "fail",          \* the listener has an error from an earlier life
   "overtake",      \* an event is handled before a packet that came earlier
   "brief",         \* a connection ends before connect is awake to see it
   "busy_close"}    \* the listener closes with works under way

ASSUME HandshakeAssumption ==
         /\ IsFiniteSet(Clients) /\ IsFiniteSet(Children)
         /\ Listener \notin Children /\ NoClient \notin Clients
         /\ MaxBacklog \in Nat /\ MaxConnects \in Nat
         /\ May \subseteq Environment

VARIABLES
  client,           \* [Clients -> Client]
  child,            \* [Children -> Child]
  listener,         \* [open, failed, pending, acceptQueue, backlog]
  toServer, toClient, \* [Clients -> Seq(Packet)]: on their way
  serverWork,       \* [Clients -> Seq([on : Children \cup {Listener}, type : Packet])]
  clientWork        \* [Clients -> Seq(Packet)]

handshakeVars == <<client, child, listener, toServer, toClient, serverWork, clientWork>>

-----------------------------------------------------------------------------
\* DETACH is an event of VMCI, no packet.
Packet == {"REQUEST", "NEGOTIATE", "OFFER", "ATTACH", "RST", "DETACH"}
State == {"unconnected", "connecting", "connected", "disconnecting", "free"}

\* sock: the state of the struct socket; calls: those of connect so far.
Client == [open : BOOLEAN, state : State, sock : {"unconnected", "connecting", "connected"},
           err : BOOLEAN, qp : BOOLEAN, peerShutdown : BOOLEAN, waits : BOOLEAN,
           calls : 0..MaxConnects]

\* owner: who has the reference the socket was created with; table: in the
\* connected table.
Child == [remote : Clients \cup {NoClient}, state : State, refs : Int, table : BOOLEAN,
          owner : {"kernel", "user", "none"}, rejected : BOOLEAN, timer : BOOLEAN,
          qp : BOOLEAN, peerShutdown : BOOLEAN]

Free == [remote |-> NoClient, state |-> "free", refs |-> 0, table |-> FALSE, owner |-> "none",
         rejected |-> FALSE, timer |-> FALSE, qp |-> FALSE, peerShutdown |-> FALSE]

HandshakeInit ==
  /\ client = [c \in Clients |-> [open |-> TRUE, state |-> "unconnected", sock |-> "unconnected",
                                  err |-> FALSE, qp |-> FALSE, peerShutdown |-> FALSE,
                                  waits |-> FALSE, calls |-> 0]]
  /\ child = [s \in Children |-> Free]
  /\ listener \in [open : {TRUE}, failed : {FALSE, "fail" \in May}, pending : {<<>>},
                   acceptQueue : {<<>>}, backlog : {0}]
  /\ toServer = [c \in Clients |-> <<>>]
  /\ toClient = [c \in Clients |-> <<>>]
  /\ serverWork = [c \in Clients |-> <<>>]
  /\ clientWork = [c \in Clients |-> <<>>]

-----------------------------------------------------------------------------
\* VSOCK_SEND_RESET and VSOCK_REPLY_RESET: a reset is not answered.
Reset(type) == IF type = "RST" THEN <<>> ELSE <<"RST">>

\* n references of a child are dropped; below zero, freed memory was touched.
Put(k, n) == IF k.refs = n THEN Free ELSE [k EXCEPT !.refs = @ - n]

\* Mutant: nobody detaches.
FarewellSilent(k, n) == <<>>

\* VSockVmciSkDestruct detaches from the queue pair.
Farewell(k, n) == IF k.refs = n /\ k.qp THEN <<"DETACH">> ELSE <<>>

\* The same for a client, whose last references are those of works.
ClientPut(k, works) == IF ~k.open /\ works = <<>> THEN [k EXCEPT !.qp = FALSE] ELSE k
ClientFarewell(k, works) == IF ~k.open /\ works = <<>> /\ k.qp THEN <<"DETACH">> ELSE <<>>

\* VSockVmciHandleDetach: what is in the queue can still be received.
Detached(k, data) ==
  IF ~k.qp THEN k
  ELSE [k EXCEPT !.peerShutdown = TRUE, !.state = IF data THEN @ ELSE "unconnected"]

\* VSockVmciRecvConnected of a reset; other packets are none of the handshake.
ResetConnected(k, data) ==
  [k EXCEPT !.peerShutdown = TRUE, !.state = IF data THEN @ ELSE "disconnecting"]

\* Only an established connection can have data.
MayHaveData(k) == {FALSE, k.state = "connected"}

-----------------------------------------------------------------------------
(* A client *)

\* VSockVmciStreamConnect of a socket that is not connecting.  An error of an
\* earlier attempt ends this one too, after the request was sent.
Connect(c) ==
  /\ client[c].open /\ ~client[c].waits /\ client[c].sock = "unconnected"
  /\ client[c].calls < MaxConnects
  /\ LET k == client[c]
     IN  \E waits \in BOOLEAN : client' = [client EXCEPT ![c] =
           IF k.err THEN [k EXCEPT !.state = "unconnected", !.calls = k.calls + 1]
           ELSE [k EXCEPT !.state = "connecting", !.sock = "connecting", !.waits = waits,
                          !.calls = k.calls + 1]]
  /\ toServer' = [toServer EXCEPT ![c] = Append(@, "REQUEST")]
  /\ UNCHANGED <<child, listener, toClient, serverWork, clientWork>>

\* A call after one that did not wait.
ConnectAgain(c) ==
  /\ client[c].open /\ ~client[c].waits /\ client[c].sock = "connecting"
  /\ client' = [client EXCEPT ![c].waits = TRUE]
  /\ UNCHANGED <<child, listener, toServer, toClient, serverWork, clientWork>>

\* A client may lose patience when the answer that completes it is on its way.
MayGiveUp(c) == "give_up" \in May \/ ("lapse" \in May /\ "ATTACH" \in Range(toClient[c]))

\* The end of the wait; given up, the connection is not looked at.
ConnectReturns(c) ==
  /\ client[c].waits
  /\ \E givesUp \in {FALSE, MayGiveUp(c)} :
       /\ givesUp \/ client[c].state = "connected" \/ client[c].err
       /\ client' = [client EXCEPT ![c] =
            IF givesUp \/ @.err
            THEN [@ EXCEPT !.waits = FALSE, !.state = "unconnected", !.sock = "unconnected"]
            ELSE [@ EXCEPT !.waits = FALSE]]
  /\ UNCHANGED <<child, listener, toServer, toClient, serverWork, clientWork>>

\* __VSockVmciRelease.
CloseClient(c) ==
  /\ client[c].open /\ ~client[c].waits
  /\ client[c].sock = "connecting" => MayGiveUp(c)
  /\ LET k == [client[c] EXCEPT !.open = FALSE]
     IN  /\ client' = [client EXCEPT ![c] = ClientPut(k, clientWork[c])]
         /\ toServer' = [toServer EXCEPT ![c] = @ \o ClientFarewell(k, clientWork[c])]
  /\ UNCHANGED <<child, listener, toClient, serverWork, clientWork>>

\* The client is about to wake up connected, and nothing happens before it has.
Asleep(c) == client[c].waits /\ client[c].state = "connected" /\ "brief" \notin May

\* VSockVmciRecvStreamCB, or VSockVmciPeerDetachCB for an event.
ArriveAtClient(c) ==
  /\ ~Asleep(c) /\ toClient[c] # <<>>
  /\ toClient' = [toClient EXCEPT ![c] = Tail(@)]
  /\ LET type == Head(toClient[c])
     IN  IF type = "DETACH"
         THEN /\ clientWork[c] = <<>> \/ "overtake" \in May
              /\ \E data \in MayHaveData(client[c]) :
                   client' = [client EXCEPT ![c] = Detached(@, data)]
              /\ UNCHANGED <<toServer, clientWork>>
         ELSE /\ UNCHANGED client
              /\ IF client[c].open
                 THEN clientWork' = [clientWork EXCEPT ![c] = Append(@, type)] /\ UNCHANGED toServer
                 ELSE toServer' = [toServer EXCEPT ![c] = @ \o Reset(type)] /\ UNCHANGED clientWork
  /\ UNCHANGED <<child, listener, serverWork>>

\* Mutant: a packet to a socket that has given up is not answered.
ClientAnswersOpenOnly(k, type, refuse, data) ==
  CASE k.state = "connecting" /\ type = "ATTACH" /\ k.qp ->
         <<[k EXCEPT !.state = "connected", !.sock = "connected"], <<>>>>
    [] k.state = "connecting" /\ type = "NEGOTIATE" /\ ~k.qp /\ ~refuse ->
         <<[k EXCEPT !.qp = TRUE], <<"OFFER">>>>
    [] OTHER -> <<k, <<>>>>

\* VSockVmciRecvPktWork with VSockVmciRecvConnectingClient and its Negotiate:
\* the socket afterwards, and what it sends.
ClientAnswers(k, type, refuse, data) ==
  CASE k.state = "connecting" /\ type = "ATTACH" /\ k.qp ->
         <<[k EXCEPT !.state = "connected", !.sock = "connected"], <<>>>>
    [] k.state = "connecting" /\ type = "NEGOTIATE" /\ ~k.qp /\ ~refuse ->
         <<[k EXCEPT !.qp = TRUE], <<"OFFER">>>>
    [] k.state = "connecting" /\ (type \notin {"ATTACH", "NEGOTIATE"} \/ (type = "ATTACH" /\ ~k.qp)
                                  \/ (type = "NEGOTIATE" /\ (k.qp \/ refuse))) ->
         <<[k EXCEPT !.state = "unconnected", !.err = TRUE], Reset(type)>>
    [] k.state = "connected" ->
         <<IF type = "RST" THEN ResetConnected(k, data) ELSE k, <<>>>>
    [] k.state \notin {"connecting", "connected"} -> <<k, Reset(type)>>

\* The works of a socket are done in any order.
ClientWorks(c) ==
  \E i \in DOMAIN clientWork[c], refuse \in {FALSE, "refuse" \in May},
     data \in MayHaveData(client[c]) :
    LET answer == ClientAnswers(client[c], clientWork[c][i], refuse, data)
        rest == RemoveAt(clientWork[c], i)
    IN  /\ ~Asleep(c)
        /\ clientWork' = [clientWork EXCEPT ![c] = rest]
        /\ client' = [client EXCEPT ![c] = ClientPut(answer[1], rest)]
        /\ toServer' = [toServer EXCEPT ![c] = @ \o answer[2] \o ClientFarewell(answer[1], rest)]
        /\ UNCHANGED <<child, listener, toClient, serverWork>>

-----------------------------------------------------------------------------
(* The listener's side *)

\* VSockVmciRecvStreamCB: the connected table, then the bound one.
ArriveAtServer(c) ==
  /\ toServer[c] # <<>>
  /\ toServer' = [toServer EXCEPT ![c] = Tail(@)]
  /\ LET type == Head(toServer[c])
         ends == {s \in Children : child[s].remote = c /\ child[s].qp}
         found == {s \in Children : child[s].remote = c /\ child[s].table}
     IN  IF type = "DETACH"
         THEN /\ serverWork[c] = <<>> \/ "overtake" \in May
              /\ \E data \in BOOLEAN :
                   child' = [s \in Children |-> IF s \in ends THEN Detached(child[s], data)
                                                ELSE child[s]]
              /\ UNCHANGED <<toClient, serverWork>>
         ELSE IF found # {}
         THEN /\ \E s \in found :
                   /\ child' = [child EXCEPT ![s].refs = @ + 1]
                   /\ serverWork' = [serverWork EXCEPT ![c] = Append(@, [on |-> s, type |-> type])]
              /\ UNCHANGED toClient
         ELSE /\ UNCHANGED child
              /\ IF listener.open
                 THEN /\ serverWork' = [serverWork EXCEPT ![c] =
                                          Append(@, [on |-> Listener, type |-> type])]
                      /\ UNCHANGED toClient
                 ELSE /\ toClient' = [toClient EXCEPT ![c] = @ \o Reset(type)]
                      /\ UNCHANGED serverWork
  /\ UNCHANGED <<client, listener, clientWork>>

\* A work on a child: VSockVmciRecvPktWork, VSockVmciRecvConnected.
ChildWorks(c) ==
  \E i \in DOMAIN serverWork[c], data \in BOOLEAN :
    LET s == serverWork[c][i].on
        type == serverWork[c][i].type
        k == IF child[s].state = "connected" /\ type = "RST" THEN ResetConnected(child[s], data)
             ELSE child[s]
        reply == IF child[s].state = "connected" THEN <<>> ELSE Reset(type)
    IN  /\ s # Listener
        /\ child' = [child EXCEPT ![s] = Put(k, 1)]
        /\ serverWork' = [serverWork EXCEPT ![c] = RemoveAt(@, i)]
        /\ toClient' = [toClient EXCEPT ![c] = @ \o reply \o Farewell(k, 1)]
        /\ UNCHANGED <<client, listener, toServer, clientWork>>

\* VSockVmciRecvListen without a pending child of that client.  Memory for the
\* child, of which there is enough, is freed with the last reference.
NewChild(c) == [Free EXCEPT !.remote = c, !.state = "connecting", !.refs = 3,
                            !.owner = "kernel", !.timer = TRUE]

\* Mutant: one more than the backlog.
ListenToRequestOneMore(c, type) ==
  IF type # "REQUEST" \/ listener.backlog > MaxBacklog
  THEN /\ toClient' = [toClient EXCEPT ![c] = @ \o Reset(type)]
       /\ UNCHANGED <<child, listener>>
  ELSE \E s \in Children :
         /\ child[s] = Free
         /\ child' = [child EXCEPT ![s] = NewChild(c)]
         /\ listener' = [listener EXCEPT !.pending = Append(@, s), !.backlog = @ + 1]
         /\ toClient' = [toClient EXCEPT ![c] = Append(@, "NEGOTIATE")]

ListenToRequest(c, type) ==
  IF type # "REQUEST" \/ listener.backlog >= MaxBacklog
  THEN /\ toClient' = [toClient EXCEPT ![c] = @ \o Reset(type)]
       /\ UNCHANGED <<child, listener>>
  ELSE \E s \in Children :
         /\ child[s] = Free
         /\ child' = [child EXCEPT ![s] = NewChild(c)]
         /\ listener' = [listener EXCEPT !.pending = Append(@, s), !.backlog = @ + 1]
         /\ toClient' = [toClient EXCEPT ![c] = Append(@, "NEGOTIATE")]

\* Only the first end may be there for an attach; see VMCIQueuePair.
MayAttach(c) == client[c].qp /\ \A s \in Children : child[s].remote = c => ~child[s].qp

\* VSockVmciRecvListen for pending child s, VSockVmciRecvConnectingServer.
\* A failed attempt drops the reference the timer would drop, and VSockVmciRecvListen
\* takes the child off the pending list, but not after a reset.
ListenForPending(c, s, type) ==
  LET k == child[s]
      dropped == IF type = "RST" THEN 0 ELSE 1
      failed == [k EXCEPT !.state = "unconnected", !.owner = "none"]
  IN  IF k.state = "connecting" /\ type = "OFFER" /\ MayAttach(c)
      THEN /\ child' = [child EXCEPT ![s].state = "connected", ![s].qp = TRUE, ![s].table = TRUE,
                                     ![s].refs = @ + 1]
           /\ listener' = [listener EXCEPT !.pending = RemoveFirst(@, s),
                                           !.acceptQueue = Append(@, s)]
           /\ toClient' = [toClient EXCEPT ![c] = Append(@, "ATTACH")]
      ELSE IF k.state = "connecting"
      THEN /\ child' = [child EXCEPT ![s] = Put(failed, dropped + 1)]
           /\ listener' = IF type = "RST" THEN listener
                          ELSE [listener EXCEPT !.pending = RemoveFirst(@, s)]
           /\ toClient' = [toClient EXCEPT ![c] = @ \o Reset(type) \o Farewell(failed, dropped + 1)]
      ELSE /\ child' = [child EXCEPT ![s] = Put(k, 1)]
           /\ listener' = [listener EXCEPT !.pending = RemoveFirst(@, s)]
           /\ toClient' = [toClient EXCEPT ![c] = @ \o Reset(type) \o Farewell(k, 1)]

\* A work on the listener, which looks for the pending child of that client first.
ListenerWorks(c) ==
  \E i \in DOMAIN serverWork[c] :
    LET type == serverWork[c][i].type
        mine == {s \in Range(listener.pending) : child[s].remote = c}
    IN  /\ serverWork[c][i].on = Listener
        /\ serverWork' = [serverWork EXCEPT ![c] = RemoveAt(@, i)]
        /\ \/ \E s \in mine : ListenForPending(c, s, type)
           \/ mine = {} /\ ListenToRequest(c, type)
        /\ UNCHANGED <<client, toServer, clientWork>>

\* Mutant: a child in the accept queue is cleaned up as well.
PendingWorkQueued(s) ==
  LET pending == s \in Range(listener.pending)
      queued == s \in Range(listener.acceptQueue)
      cleanup == pending \/ child[s].rejected \/ queued
      drops == (IF pending THEN 1 ELSE 0) + (IF cleanup THEN 2 ELSE 1)
                 + (IF cleanup /\ child[s].table THEN 1 ELSE 0)
      k == IF cleanup THEN [child[s] EXCEPT !.timer = FALSE, !.table = FALSE, !.state = "free",
                                            !.owner = "none"]
           ELSE [child[s] EXCEPT !.timer = FALSE]
  IN  /\ child[s].timer
      /\ child' = [child EXCEPT ![s] = Put(k, drops)]
      /\ listener' = IF cleanup THEN [listener EXCEPT !.pending = RemoveFirst(@, s), !.backlog = @ - 1]
                     ELSE listener
      /\ toClient' = [c \in Clients |-> IF c = k.remote THEN toClient[c] \o Farewell(k, drops)
                                        ELSE toClient[c]]
      /\ UNCHANGED <<client, toServer, serverWork, clientWork>>

\* VSockVmciPendingWork: the timer of a child.
PendingWork(s) ==
  LET pending == s \in Range(listener.pending)
      cleanup == pending \/ child[s].rejected
      drops == (IF pending THEN 1 ELSE 0) + (IF cleanup THEN 2 ELSE 1)
                 + (IF cleanup /\ child[s].table THEN 1 ELSE 0)
      k == IF cleanup THEN [child[s] EXCEPT !.timer = FALSE, !.table = FALSE, !.state = "free",
                                            !.owner = "none"]
           ELSE [child[s] EXCEPT !.timer = FALSE]
  IN  /\ child[s].timer
      /\ child' = [child EXCEPT ![s] = Put(k, drops)]
      /\ listener' = IF cleanup THEN [listener EXCEPT !.pending = RemoveFirst(@, s), !.backlog = @ - 1]
                     ELSE listener
      /\ toClient' = [c \in Clients |-> IF c = k.remote THEN toClient[c] \o Farewell(k, drops)
                                        ELSE toClient[c]]
      /\ UNCHANGED <<client, toServer, serverWork, clientWork>>

\* VSockVmciAccept, when there is something to accept; with an error on the
\* listener the child is rejected and left to its timer.
Accept ==
  /\ listener.open /\ listener.acceptQueue # <<>>
  /\ LET s == Head(listener.acceptQueue)
         k == IF listener.failed THEN [child[s] EXCEPT !.rejected = TRUE]
              ELSE [child[s] EXCEPT !.owner = "user"]
     IN  /\ child' = [child EXCEPT ![s] = Put(k, 1)]
         /\ toClient' = [toClient EXCEPT ![k.remote] = @ \o Farewell(k, 1)]
  /\ listener' = [listener EXCEPT !.acceptQueue = Tail(@), !.backlog = @ - 1]
  /\ UNCHANGED <<client, toServer, serverWork, clientWork>>

\* __VSockVmciRelease of a child: its entry in the table and its owner's
\* reference go, and extra ones.
Release(k, extra) == [child |-> [k EXCEPT !.table = FALSE, !.owner = "none"],
                      drops |-> extra + (IF k.table THEN 2 ELSE 1)]

CloseAccepted(s) ==
  LET r == Release(child[s], 0)
  IN  /\ child[s].owner = "user"
      /\ child' = [child EXCEPT ![s] = Put(r.child, r.drops)]
      /\ toClient' = [toClient EXCEPT ![child[s].remote] = @ \o Farewell(r.child, r.drops)]
      /\ UNCHANGED <<client, listener, toServer, serverWork, clientWork>>

\* Mutant: the accept queue is left as it is.
CloseListenerOnly ==
  /\ listener.open
  /\ listener' = [listener EXCEPT !.open = FALSE]
  /\ UNCHANGED <<client, child, toServer, toClient, serverWork, clientWork>>

\* __VSockVmciRelease of the listener and of the children in its accept queue,
\* not of those on its pending list.  Its state stays what it was.
CloseListener ==
  LET queued == Range(listener.acceptQueue)
      r == [s \in queued |-> Release(child[s], 1)]
  IN  /\ listener.open
      /\ \/ "busy_close" \in May
         \/ \A c \in Clients : \A i \in DOMAIN serverWork[c] : serverWork[c][i].on # Listener
      /\ listener' = [listener EXCEPT !.open = FALSE, !.acceptQueue = <<>>]
      /\ child' = [s \in Children |-> IF s \in queued THEN Put(r[s].child, r[s].drops) ELSE child[s]]
      /\ toClient' = [c \in Clients |->
           toClient[c] \o (IF \E s \in queued : r[s].child.remote = c
                                                /\ Farewell(r[s].child, r[s].drops) # <<>>
                           THEN <<"DETACH">> ELSE <<>>)]
      /\ UNCHANGED <<client, toServer, serverWork, clientWork>>

-----------------------------------------------------------------------------
HandshakeNext ==
  \/ \E c \in Clients :
       \/ Connect(c) \/ ConnectAgain(c) \/ ConnectReturns(c) \/ CloseClient(c)
       \/ ArriveAtClient(c) \/ ClientWorks(c)
       \/ ArriveAtServer(c) \/ ChildWorks(c) \/ ListenerWorks(c)
  \/ \E s \in Children : PendingWork(s) \/ CloseAccepted(s)
  \/ Accept \/ CloseListener

\* Packets arrive, works are done, timers fire and sleepers run; nobody has to
\* call anything.
HandshakeFairness ==
  /\ \A c \in Clients :
       /\ WF_handshakeVars(ArriveAtClient(c)) /\ WF_handshakeVars(ClientWorks(c))
       /\ WF_handshakeVars(ArriveAtServer(c)) /\ WF_handshakeVars(ChildWorks(c) \/ ListenerWorks(c))
       /\ WF_handshakeVars(client[c].waits /\ (client[c].state = "connected" \/ client[c].err)
                    /\ ConnectReturns(c))
  /\ \A s \in Children : WF_handshakeVars(PendingWork(s))

HandshakeSpec == HandshakeInit /\ [][HandshakeNext]_handshakeVars
HandshakeFairSpec == HandshakeSpec /\ HandshakeFairness

-----------------------------------------------------------------------------
(* Properties *)

\* Type invariant.
HandshakeTypeOK ==
  /\ client \in [Clients -> Client]
  /\ child \in [Children -> Child]
  /\ listener \in [open : BOOLEAN, failed : BOOLEAN, pending : Seq(Children),
                   acceptQueue : Seq(Children), backlog : Int]
  /\ toServer \in [Clients -> Seq(Packet)]
  /\ toClient \in [Clients -> Seq(Packet)]
  /\ serverWork \in [Clients -> Seq([on : Children \cup {Listener}, type : Packet])]
  /\ clientWork \in [Clients -> Seq(Packet)]

\* The count of a child is the number of those who have it: its owner or the
\* kernel, a list of the listener, the table, the timer and works.  Nobody has
\* one that is freed.
WorksOn(s, c) == {i \in DOMAIN serverWork[c] : serverWork[c][i].on = s}
Works(s) == UNION {{c} \X WorksOn(s, c) : c \in Clients}
HolderKinds(s) ==
  {x \in {"own", "pending", "queue", "table", "timer"} :
     \/ x = "own" /\ child[s].owner # "none"
     \/ x = "pending" /\ s \in Range(listener.pending)
     \/ x = "queue" /\ s \in Range(listener.acceptQueue)
     \/ x = "table" /\ child[s].table
     \/ x = "timer" /\ child[s].timer}

RefCountIsHolders ==
  \A s \in Children : child[s].refs = Cardinality(HolderKinds(s)) + Cardinality(Works(s))

\* The backlog of an open listener counts the children that wait on it, and is
\* never more than was asked for.
BacklogCountsWaiting ==
  listener.open =>
    /\ listener.backlog = Len(listener.pending) + Len(listener.acceptQueue)
    /\ listener.backlog <= MaxBacklog

\* An established connection has another end, or its socket knows that it has
\* not, or is told by what is on its way to it.
Gone(k, way, works) == k.peerShutdown \/ "DETACH" \in Range(way) \/ "RST" \in Range(way) \cup works

HalfOpenIsNoticed ==
  /\ \A c \in Clients :
       client[c].open /\ client[c].state = "connected" =>
         \/ \E s \in Children : child[s].remote = c /\ child[s].qp
         \/ Gone(client[c], toClient[c], Range(clientWork[c]))
  /\ \A s \in Children :
       child[s].qp =>
         \/ client[child[s].remote].qp
         \/ Gone(child[s], toServer[child[s].remote],
                 {serverWork[child[s].remote][i].type :
                    i \in {j \in DOMAIN serverWork[child[s].remote] :
                             serverWork[child[s].remote][j].on = s}})

\* A call of connect that waits returns ("it could be sitting in a connect and
\* hang forever", af_vsock.c).
ConnectsReturn == \A c \in Clients : client[c].waits ~> ~client[c].waits

\* After the listener is closed, children no user has accepted go away.
ChildrenAreFreed ==
  \A s \in Children : ~listener.open ~> child[s].owner # "kernel"

\* A child that accept rejects is cleaned up by its timer ("the fact that we
\* found it in the listener's accept queue guarantees that the cleanup function
\* hasn't run yet", af_vsock.c).
RejectedAreCleanedUp == \A s \in Children : child[s].rejected ~> ~child[s].rejected
=============================================================================
