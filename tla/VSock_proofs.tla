---------------------------- MODULE VSock_proofs ----------------------------
(***************************************************************************)
(* Proofs about vsock, for any clients, children, queues, pages and        *)
(* receives.  The first three parts are about the waiting protocol of      *)
(* linux/notify.c: small queues and receives that do not wait are not      *)
(* excluded, but in the second part, about the window, they are (Usable):  *)
(* there the sender may wait for space that is not announced.  The third   *)
(* part is about the bytes, for queues of any size again.                  *)
(*                                                                         *)
(* The fourth part is about the handshake of linux/af_vsock.c, for any     *)
(* environment: the works, the lists and the counts of the children        *)
(* (ServerInv), the ends of the connections (ClientEnds, ServerEnds), then *)
(* the counts once more, and clients that connect once.                    *)
(***************************************************************************)
EXTENDS VSockNotify, VSockHandshake, SequenceTheorems, FiniteSetTheorems, TLAPS

ReadSide == [sentWaitingRead : BOOLEAN, peerWaitingWrite : BOOLEAN,
             peerWaitingWriteDetected : BOOLEAN,
             writeNotifyWindow : Int, writeNotifyMinWindow : Int]
WriteSide == [sentWaitingWrite : BOOLEAN, peerWaitingRead : BOOLEAN]

\* What the protocol needs to know of types.
SidesOK ==
  /\ writeSide \in WriteSide
  /\ readSide \in ReadSide
  /\ packets \in [Kinds -> Nat]

\* Data is waited for by the reader, space by the sender.
DataHalf ==
  packets["WAITING_READ"] + One(writeSide.peerWaitingRead) + packets["WROTE"]
    = One(readSide.sentWaitingRead)
SpaceHalf ==
  packets["WAITING_WRITE"] + One(readSide.peerWaitingWrite) + packets["READ"]
    = One(writeSide.sentWaitingWrite)

Inv == SidesOK /\ DataHalf /\ SpaceHalf

-----------------------------------------------------------------------------
\* The window is a number again after it shrank.
LEMMA ModWord == \A w \in Int : w % Word \in Int
  BY NotifyAssumption, QueueSizeAssumption

\* Making the window larger leaves the flags alone.
LEMMA WidenWindowFlags ==
  ASSUME NEW side \in ReadSide
  PROVE  /\ WidenWindow(side) \in ReadSide
         /\ WidenWindow(side).sentWaitingRead = side.sentWaitingRead
         /\ WidenWindow(side).peerWaitingWrite = side.peerWaitingWrite
  BY NotifyAssumption, QueueSizeAssumption DEF WidenWindow, ReadSide

\* Shrinking it leaves those alone that the peer knows of.
LEMMA ShrinkWindowFlags ==
  ASSUME NEW side \in ReadSide
  PROVE  /\ ShrinkWindow(side) \in ReadSide
         /\ ShrinkWindow(side).sentWaitingRead = side.sentWaitingRead
         /\ ShrinkWindow(side).peerWaitingWrite = side.peerWaitingWrite
<1> DEFINE w == (side.writeNotifyWindow + Word - PageSize) % Word
<1>1. side.writeNotifyWindow + Word - PageSize \in Int
  BY NotifyAssumption DEF ReadSide
<1>2. w \in Int
  BY <1>1, ModWord
<1> HIDE DEF w
<1>3. ShrinkWindow(side) =
        IF side.peerWaitingWriteDetected THEN side
        ELSE [side EXCEPT !.peerWaitingWriteDetected = TRUE,
                          !.writeNotifyWindow = IF w < side.writeNotifyMinWindow
                                                THEN side.writeNotifyMinWindow ELSE w]
  BY DEF ShrinkWindow, w
<1> QED
  BY <1>2, <1>3 DEF ReadSide

\* A writer that is noted stays so, or is sent READ and forgotten.
LEMMA NotifyWriterFlags ==
  ASSUME NEW side \in ReadSide, NEW n, n = NotifyWriter(side)
  PROVE  /\ n.side \in ReadSide
         /\ n.side.sentWaitingRead = side.sentWaitingRead
         /\ \/ n.read = FALSE /\ n.side.peerWaitingWrite = side.peerWaitingWrite
            \/ n.read = TRUE /\ n.side.peerWaitingWrite = FALSE /\ side.peerWaitingWrite = TRUE
<1>1. CASE ~side.peerWaitingWrite
  <2>1. n = [side |-> side, read |-> FALSE]
    BY <1>1 DEF NotifyWriter
  <2>2. n.side = side /\ n.read = FALSE
    BY <2>1
  <2> QED
    BY <2>2, Zenon
<1>2. CASE side.peerWaitingWrite
  <2> DEFINE s == ShrinkWindow(side)
             t == [s EXCEPT !.peerWaitingWriteDetected = FALSE, !.peerWaitingWrite = FALSE]
  <2>1. side.peerWaitingWrite = TRUE
    BY <1>2 DEF ReadSide
  <2>2. /\ s \in ReadSide
        /\ s.sentWaitingRead = side.sentWaitingRead
        /\ s.peerWaitingWrite = side.peerWaitingWrite
    BY ShrinkWindowFlags
  <2>3. n = IF Space > NotifyLimit(s) THEN [side |-> t, read |-> TRUE]
            ELSE [side |-> s, read |-> FALSE]
    BY <1>2 DEF NotifyWriter
  <2> HIDE DEF s
  <2>4. t \in ReadSide /\ t.sentWaitingRead = s.sentWaitingRead /\ t.peerWaitingWrite = FALSE
    BY <2>2 DEF ReadSide
  <2> HIDE DEF t
  <2>5. CASE Space > NotifyLimit(s)
    <3>1. n = [side |-> t, read |-> TRUE]
      BY <2>3, <2>5
    <3>2. n.side = t /\ n.read = TRUE
      BY <3>1
    <3> QED
      BY <2>1, <2>2, <2>4, <3>2, Zenon
  <2>6. CASE ~(Space > NotifyLimit(s))
    <3>1. n = [side |-> s, read |-> FALSE]
      BY <2>3, <2>6
    <3>2. n.side = s /\ n.read = FALSE
      BY <3>1
    <3> QED
      BY <2>2, <3>2, Zenon
  <2> QED
    BY <2>5, <2>6
<1> QED
  BY <1>1, <1>2

\* Raising the window leaves the flags alone.
LEMMA RecvInitFlags ==
  ASSUME NEW target \in Int, readSide \in ReadSide, NEW s, s = RecvInit(target).side
  PROVE  /\ s \in ReadSide
         /\ s.sentWaitingRead = readSide.sentWaitingRead
         /\ s.peerWaitingWrite = readSide.peerWaitingWrite
<1> DEFINE min == target + 1
           raised == readSide.writeNotifyMinWindow < min
           widened == raised /\ readSide.writeNotifyWindow < min
           a == IF raised THEN min ELSE readSide.writeNotifyMinWindow
           b == IF widened THEN min ELSE readSide.writeNotifyWindow
<1>1. s = [readSide EXCEPT !.writeNotifyMinWindow = a, !.writeNotifyWindow = b]
  BY DEF RecvInit
<1>2. a \in Int /\ b \in Int
  BY DEF ReadSide
<1> HIDE DEF a, b
<1> QED
  BY <1>1, <1>2 DEF ReadSide

-----------------------------------------------------------------------------
\* Nobody waits at first.
LEMMA InitInv == Init => Inv
<1> SUFFICES ASSUME Init PROVE Inv
  OBVIOUS
<1>1. SidesOK
  BY NotifyAssumption, QueueSizeAssumption DEF Init, SidesOK, ReadSide, WriteSide
<1>2. DataHalf /\ SpaceHalf
  BY DEF Init, DataHalf, SpaceHalf, One, Kinds
<1> QED
  BY <1>1, <1>2 DEF Inv

\* The steps of calls that leave both sides and the packets alone.
LEMMA SameSides ==
  ASSUME Inv, UNCHANGED <<writeSide, readSide, packets>>
  PROVE  Inv'
  BY DEF Inv, SidesOK, DataHalf, SpaceHalf

\* What a step leaves alone keeps its half.
LEMMA DataKept ==
  ASSUME DataHalf,
         packets'["WAITING_READ"] = packets["WAITING_READ"], packets'["WROTE"] = packets["WROTE"],
         writeSide'.peerWaitingRead = writeSide.peerWaitingRead,
         readSide'.sentWaitingRead = readSide.sentWaitingRead
  PROVE  DataHalf'
  BY Zenon DEF DataHalf

LEMMA SpaceKept ==
  ASSUME SpaceHalf,
         packets'["WAITING_WRITE"] = packets["WAITING_WRITE"], packets'["READ"] = packets["READ"],
         readSide'.peerWaitingWrite = readSide.peerWaitingWrite,
         writeSide'.sentWaitingWrite = writeSide.sentWaitingWrite
  PROVE  SpaceHalf'
  BY Zenon DEF SpaceHalf

\* A flag counts for one or for nothing.
LEMMA Ones ==
  ASSUME NEW b
  PROVE  (b = TRUE => One(b) = 1) /\ (b = FALSE => One(b) = 0) /\ One(b) \in Nat
<1>1. (b = TRUE => One(b) = 1) /\ (b = FALSE => One(b) = 0)
  BY Zenon DEF One
<1>2. One(b) \in Nat
  BY DEF One
<1> QED
  BY <1>1, <1>2

\* One more packet of a kind, and one less.
LEMMA OneMore ==
  ASSUME NEW k \in Kinds, NEW p \in [Kinds -> Nat]
  PROVE  /\ [p EXCEPT ![k] = @ + 1] \in [Kinds -> Nat]
         /\ [p EXCEPT ![k] = @ + 1][k] = p[k] + 1
         /\ \A j \in Kinds \ {k} : [p EXCEPT ![k] = @ + 1][j] = p[j]
  OBVIOUS

LEMMA OneLess ==
  ASSUME NEW k \in Kinds, NEW p \in [Kinds -> Nat], p[k] > 0
  PROVE  /\ [p EXCEPT ![k] = @ - 1] \in [Kinds -> Nat]
         /\ [p EXCEPT ![k] = @ - 1][k] = p[k] - 1
         /\ \A j \in Kinds \ {k} : [p EXCEPT ![k] = @ - 1][j] = p[j]
  OBVIOUS

\* A sender that has not said so says that it waits.
LEMMA SendPreBlockInv == Inv /\ SendPreBlock => Inv'
<1> SUFFICES ASSUME Inv, SendPreBlock PROVE Inv'
  OBVIOUS
<1>0. readSide' = readSide /\ DataHalf /\ SpaceHalf
  BY DEF SendPreBlock, Inv
<1>1. CASE writeSide.sentWaitingWrite
  BY <1>0, <1>1, SameSides DEF SendPreBlock
<1>2. CASE ~writeSide.sentWaitingWrite
  <2>1. /\ packets' = [packets EXCEPT !["WAITING_WRITE"] = @ + 1]
        /\ writeSide' = [writeSide EXCEPT !.sentWaitingWrite = TRUE]
    BY <1>2 DEF SendPreBlock, Send
  <2>2. /\ packets' \in [Kinds -> Nat]
        /\ packets'["WAITING_WRITE"] = packets["WAITING_WRITE"] + 1
        /\ packets'["READ"] = packets["READ"]
        /\ packets'["WAITING_READ"] = packets["WAITING_READ"]
        /\ packets'["WROTE"] = packets["WROTE"]
    BY <2>1, OneMore DEF Inv, SidesOK, Kinds
  <2>3. /\ writeSide' \in WriteSide
        /\ writeSide.sentWaitingWrite = FALSE /\ writeSide'.sentWaitingWrite = TRUE
        /\ writeSide'.peerWaitingRead = writeSide.peerWaitingRead
    BY <1>2, <2>1 DEF Inv, SidesOK, WriteSide
  <2>4. SidesOK'
    BY <1>0, <2>2, <2>3 DEF Inv, SidesOK
  <2>5. DataHalf'
    BY <1>0, <2>2, <2>3, DataKept
  <2>6. SpaceHalf'
    <3>1. /\ One(writeSide.sentWaitingWrite) = 0 /\ One(writeSide'.sentWaitingWrite) = 1
          /\ One(readSide.peerWaitingWrite) \in Nat
      BY <2>3, Ones
    <3>2. packets["WAITING_WRITE"] \in Nat /\ packets["READ"] \in Nat
      BY DEF Inv, SidesOK, Kinds
    <3>3. One(readSide'.peerWaitingWrite) = One(readSide.peerWaitingWrite)
      BY <1>0, Zenon
    <3> QED
      BY <1>0, <2>2, <3>1, <3>2, <3>3 DEF SpaceHalf
  <2> QED
    BY <2>4, <2>5, <2>6 DEF Inv
<1> QED
  BY <1>1, <1>2

\* A WROTE goes out for a reader that was noted, or he stays noted.
LEMMA SendPostEnqueueInv == Inv /\ SendPostEnqueue => Inv'
<1> SUFFICES ASSUME Inv, SendPostEnqueue PROVE Inv'
  OBVIOUS
<1>0. readSide' = readSide /\ DataHalf /\ SpaceHalf
  BY DEF SendPostEnqueue, Inv
<1>1. CASE ~(writeSide.peerWaitingRead /\ Ready > 0)
  <2>1. writeSide' = writeSide /\ packets' = packets
    BY <1>1 DEF SendPostEnqueue, NotifyReader, Inv, SidesOK, WriteSide
  <2> QED
    BY <1>0, <2>1, SameSides
<1>2. CASE writeSide.peerWaitingRead /\ Ready > 0
  <2>1. /\ packets' = [packets EXCEPT !["WROTE"] = @ + 1]
        /\ writeSide' = [writeSide EXCEPT !.peerWaitingRead = FALSE]
    BY <1>2 DEF SendPostEnqueue, NotifyReader, Send
  <2>2. /\ packets' \in [Kinds -> Nat]
        /\ packets'["WROTE"] = packets["WROTE"] + 1
        /\ packets'["WAITING_READ"] = packets["WAITING_READ"]
        /\ packets'["WAITING_WRITE"] = packets["WAITING_WRITE"]
        /\ packets'["READ"] = packets["READ"]
    BY <2>1, OneMore DEF Inv, SidesOK, Kinds
  <2>3. /\ writeSide' \in WriteSide
        /\ writeSide.peerWaitingRead = TRUE /\ writeSide'.peerWaitingRead = FALSE
        /\ writeSide'.sentWaitingWrite = writeSide.sentWaitingWrite
    BY <1>2, <2>1 DEF Inv, SidesOK, WriteSide
  <2>4. SidesOK'
    BY <1>0, <2>2, <2>3 DEF Inv, SidesOK
  <2>5. SpaceHalf'
    BY <1>0, <2>2, <2>3, SpaceKept
  <2>6. DataHalf'
    <3>1. One(writeSide.peerWaitingRead) = 1 /\ One(writeSide'.peerWaitingRead) = 0
      BY <2>3, Ones
    <3>2. packets["WAITING_READ"] \in Nat /\ packets["WROTE"] \in Nat
      BY DEF Inv, SidesOK, Kinds
    <3>3. One(readSide'.sentWaitingRead) = One(readSide.sentWaitingRead)
      BY <1>0, Zenon
    <3> QED
      BY <1>0, <2>2, <3>1, <3>2, <3>3 DEF DataHalf
  <2> QED
    BY <2>4, <2>5, <2>6 DEF Inv
<1> QED
  BY <1>1, <1>2

\* A reader's request is answered or noted.
LEMMA HandleWaitingReadInv == Inv /\ HandleWaitingRead => Inv'
<1> SUFFICES ASSUME Inv, HandleWaitingRead PROVE Inv'
  OBVIOUS
<1>0. /\ readSide' = readSide /\ DataHalf /\ SpaceHalf
      /\ packets \in [Kinds -> Nat] /\ packets["WAITING_READ"] > 0
  BY DEF HandleWaitingRead, Inv, SidesOK
<1>1. /\ packets["WAITING_READ"] \in Nat /\ packets["WROTE"] \in Nat
      /\ One(writeSide.peerWaitingRead) \in Nat /\ One(readSide.sentWaitingRead) \in Nat
      /\ One(readSide'.sentWaitingRead) = One(readSide.sentWaitingRead)
  <2>1. One(readSide'.sentWaitingRead) = One(readSide.sentWaitingRead)
    BY <1>0, Zenon
  <2> QED
    BY <1>0, <2>1, Ones DEF Kinds
<1>2. CASE Ready > 0
  <2>1. /\ packets' = [packets EXCEPT !["WAITING_READ"] = @ - 1, !["WROTE"] = @ + 1]
        /\ writeSide' = writeSide
    BY <1>2 DEF HandleWaitingRead
  <2>2. /\ packets' \in [Kinds -> Nat]
        /\ packets'["WROTE"] = packets["WROTE"] + 1
        /\ packets'["WAITING_READ"] = packets["WAITING_READ"] - 1
        /\ packets'["WAITING_WRITE"] = packets["WAITING_WRITE"]
        /\ packets'["READ"] = packets["READ"]
    BY <1>0, <2>1 DEF Kinds
  <2>3. SidesOK' /\ SpaceHalf'
    BY <1>0, <2>1, <2>2, SpaceKept DEF Inv, SidesOK
  <2>4. One(writeSide'.peerWaitingRead) = One(writeSide.peerWaitingRead)
    BY <2>1, Zenon
  <2>5. DataHalf'
    BY <1>0, <1>1, <2>2, <2>4 DEF DataHalf
  <2> QED
    BY <2>3, <2>5 DEF Inv
<1>3. CASE ~(Ready > 0)
  <2>1. /\ packets' = [packets EXCEPT !["WAITING_READ"] = @ - 1]
        /\ writeSide' = [writeSide EXCEPT !.peerWaitingRead = TRUE]
    BY <1>3 DEF HandleWaitingRead
  <2>2. /\ packets' \in [Kinds -> Nat]
        /\ packets'["WROTE"] = packets["WROTE"]
        /\ packets'["WAITING_READ"] = packets["WAITING_READ"] - 1
        /\ packets'["WAITING_WRITE"] = packets["WAITING_WRITE"]
        /\ packets'["READ"] = packets["READ"]
    BY <1>0, <2>1, OneLess DEF Kinds
  <2>3. /\ writeSide' \in WriteSide
        /\ writeSide.peerWaitingRead \in BOOLEAN /\ writeSide'.peerWaitingRead = TRUE
        /\ writeSide'.sentWaitingWrite = writeSide.sentWaitingWrite
    BY <2>1 DEF Inv, SidesOK, WriteSide
  <2>4. SidesOK' /\ SpaceHalf'
    BY <1>0, <2>2, <2>3, SpaceKept DEF Inv, SidesOK
  <2>5. DataHalf'
    <3>1. One(writeSide'.peerWaitingRead) = 1 /\ One(readSide.sentWaitingRead) <= 1
      <4>1. One(writeSide'.peerWaitingRead) = 1
        BY <2>3, Ones
      <4>2. readSide.sentWaitingRead = TRUE \/ readSide.sentWaitingRead = FALSE
        BY DEF Inv, SidesOK, ReadSide
      <4>3. One(readSide.sentWaitingRead) = 1 \/ One(readSide.sentWaitingRead) = 0
        BY <4>2, Ones
      <4> QED
        BY <4>1, <4>3
    <3> QED
      BY <1>0, <1>1, <2>2, <3>1 DEF DataHalf
  <2> QED
    BY <2>4, <2>5 DEF Inv
<1> QED
  BY <1>2, <1>3

\* READ ends the sender's wait.
LEMMA HandleReadInv == Inv /\ HandleRead => Inv'
<1> SUFFICES ASSUME Inv, HandleRead PROVE Inv'
  OBVIOUS
<1>0. /\ readSide' = readSide /\ DataHalf /\ SpaceHalf
      /\ packets \in [Kinds -> Nat] /\ packets["READ"] > 0
      /\ packets' = [packets EXCEPT !["READ"] = @ - 1]
      /\ writeSide' = [writeSide EXCEPT !.sentWaitingWrite = FALSE]
  BY DEF HandleRead, Inv, SidesOK
<1>1. /\ packets' \in [Kinds -> Nat]
      /\ packets'["READ"] = packets["READ"] - 1
      /\ packets'["WAITING_WRITE"] = packets["WAITING_WRITE"]
      /\ packets'["WAITING_READ"] = packets["WAITING_READ"]
      /\ packets'["WROTE"] = packets["WROTE"]
  BY <1>0, OneLess DEF Kinds
<1>2. /\ writeSide' \in WriteSide
      /\ writeSide.sentWaitingWrite \in BOOLEAN /\ writeSide'.sentWaitingWrite = FALSE
      /\ writeSide'.peerWaitingRead = writeSide.peerWaitingRead
  BY <1>0 DEF Inv, SidesOK, WriteSide
<1>3. SidesOK' /\ DataHalf'
  BY <1>0, <1>1, <1>2, DataKept DEF Inv, SidesOK
<1>4. SpaceHalf'
  <2>1. One(writeSide'.sentWaitingWrite) = 0 /\ One(readSide.peerWaitingWrite) \in Nat
    BY <1>2, Ones
  <2>2. One(writeSide.sentWaitingWrite) = 1 \/ One(writeSide.sentWaitingWrite) = 0
    BY <1>2, Ones
  <2>3. One(readSide'.peerWaitingWrite) = One(readSide.peerWaitingWrite)
    BY <1>0, Zenon
  <2>4. packets["WAITING_WRITE"] \in Nat /\ packets["READ"] \in Nat /\ packets["READ"] > 0
    BY <1>0 DEF Kinds
  <2>5. packets["WAITING_WRITE"] + One(readSide.peerWaitingWrite) + packets["READ"]
          = One(writeSide.sentWaitingWrite)
    BY <1>0 DEF SpaceHalf
  <2>6. packets["WAITING_WRITE"] = 0 /\ One(readSide.peerWaitingWrite) = 0 /\ packets["READ"] = 1
    BY <2>1, <2>2, <2>4, <2>5
  <2> QED
    BY <1>1, <2>1, <2>3, <2>6 DEF SpaceHalf
<1> QED
  BY <1>3, <1>4 DEF Inv

\* WROTE ends the reader's wait.
LEMMA HandleWroteInv == Inv /\ HandleWrote => Inv'
<1> SUFFICES ASSUME Inv, HandleWrote PROVE Inv'
  OBVIOUS
<1>0. /\ writeSide' = writeSide /\ DataHalf /\ SpaceHalf
      /\ packets \in [Kinds -> Nat] /\ packets["WROTE"] > 0
      /\ packets' = [packets EXCEPT !["WROTE"] = @ - 1]
      /\ readSide' = [readSide EXCEPT !.sentWaitingRead = FALSE]
  BY DEF HandleWrote, Inv, SidesOK
<1>1. /\ packets' \in [Kinds -> Nat]
      /\ packets'["WROTE"] = packets["WROTE"] - 1
      /\ packets'["WAITING_READ"] = packets["WAITING_READ"]
      /\ packets'["WAITING_WRITE"] = packets["WAITING_WRITE"]
      /\ packets'["READ"] = packets["READ"]
  BY <1>0, OneLess DEF Kinds
<1>2. /\ readSide' \in ReadSide
      /\ readSide.sentWaitingRead \in BOOLEAN /\ readSide'.sentWaitingRead = FALSE
      /\ readSide'.peerWaitingWrite = readSide.peerWaitingWrite
  BY <1>0 DEF Inv, SidesOK, ReadSide
<1>3. SidesOK' /\ SpaceHalf'
  BY <1>0, <1>1, <1>2, SpaceKept DEF Inv, SidesOK
<1>4. DataHalf'
  <2>1. One(readSide'.sentWaitingRead) = 0 /\ One(writeSide.peerWaitingRead) \in Nat
    BY <1>2, Ones
  <2>2. One(readSide.sentWaitingRead) = 1 \/ One(readSide.sentWaitingRead) = 0
    BY <1>2, Ones
  <2>3. One(writeSide'.peerWaitingRead) = One(writeSide.peerWaitingRead)
    BY <1>0, Zenon
  <2>4. packets["WAITING_READ"] \in Nat /\ packets["WROTE"] \in Nat /\ packets["WROTE"] > 0
    BY <1>0 DEF Kinds
  <2>5. packets["WAITING_READ"] + One(writeSide.peerWaitingRead) + packets["WROTE"]
          = One(readSide.sentWaitingRead)
    BY <1>0 DEF DataHalf
  <2>6. packets["WAITING_READ"] = 0 /\ One(writeSide.peerWaitingRead) = 0 /\ packets["WROTE"] = 1
    BY <2>1, <2>2, <2>4, <2>5
  <2> QED
    BY <1>1, <2>1, <2>3, <2>6 DEF DataHalf
<1> QED
  BY <1>3, <1>4 DEF Inv

\* A receive changes the window at most when it starts.
LEMMA StartRecvInv ==
  ASSUME Inv, NEW kind, NEW target \in 1..QueueSize - 1, NEW len, NEW wait,
         StartRecv(kind, target, len, wait)
  PROVE  Inv'
<1>1. /\ readSide' = RecvInit(target).side /\ writeSide' = writeSide /\ packets' = packets
      /\ target \in Int /\ readSide \in ReadSide
  BY DEF StartRecv, Inv, SidesOK
<1>2. /\ readSide' \in ReadSide
      /\ readSide'.sentWaitingRead = readSide.sentWaitingRead
      /\ readSide'.peerWaitingWrite = readSide.peerWaitingWrite
  BY <1>1, RecvInitFlags
<1>3. SidesOK' /\ DataHalf' /\ SpaceHalf'
  BY <1>1, <1>2, DataKept, SpaceKept DEF Inv, SidesOK
<1> QED
  BY <1>3 DEF Inv

-----------------------------------------------------------------------------
\* What a receiving socket sends at a time.
LEMMA SentPackets ==
  ASSUME packets \in [Kinds -> Nat], NEW w \in BOOLEAN, NEW r \in BOOLEAN, NEW p, p = Sent(w, r)
  PROVE  /\ p \in [Kinds -> Nat]
         /\ p["WAITING_READ"] = packets["WAITING_READ"] + One(w)
         /\ p["READ"] = packets["READ"] + One(r)
         /\ p["WROTE"] = packets["WROTE"]
         /\ p["WAITING_WRITE"] = packets["WAITING_WRITE"]
<1> DEFINE a == IF w THEN packets["WAITING_READ"] + 1 ELSE packets["WAITING_READ"]
           b == IF r THEN packets["READ"] + 1 ELSE packets["READ"]
<1>1. p = [packets EXCEPT !["WAITING_READ"] = a, !["READ"] = b]
  BY DEF Sent
<1>2. a \in Nat /\ b \in Nat
  BY DEF Kinds
<1>3. a = packets["WAITING_READ"] + One(w) /\ b = packets["READ"] + One(r)
  BY DEF One, Kinds
<1> HIDE DEF a, b
<1>4. /\ p \in [Kinds -> Nat] /\ p["WAITING_READ"] = a /\ p["READ"] = b
      /\ p["WROTE"] = packets["WROTE"] /\ p["WAITING_WRITE"] = packets["WAITING_WRITE"]
  BY <1>1, <1>2 DEF Kinds
<1> QED
  BY <1>3, <1>4

\* A writer is noted, or READ is under way: NotifyWriter does not change the sum.
LEMMA NotifyWriterSum ==
  ASSUME NEW side \in ReadSide, NEW n, n = NotifyWriter(side)
  PROVE  /\ n.side \in ReadSide /\ n.read \in BOOLEAN
         /\ n.side.sentWaitingRead = side.sentWaitingRead
         /\ One(n.side.peerWaitingWrite) + One(n.read) = One(side.peerWaitingWrite)
<1>1. /\ n.side \in ReadSide
      /\ n.side.sentWaitingRead = side.sentWaitingRead
      /\ \/ n.read = FALSE /\ n.side.peerWaitingWrite = side.peerWaitingWrite
         \/ n.read = TRUE /\ n.side.peerWaitingWrite = FALSE /\ side.peerWaitingWrite = TRUE
  BY NotifyWriterFlags
<1>2. CASE n.read = FALSE /\ n.side.peerWaitingWrite = side.peerWaitingWrite
  <2>1. One(n.read) = 0 /\ One(side.peerWaitingWrite) \in Nat
    BY <1>2, Ones
  <2>2. One(n.side.peerWaitingWrite) = One(side.peerWaitingWrite)
    BY <1>2, Zenon
  <2>3. n.read \in BOOLEAN
    BY <1>2
  <2> QED
    BY <1>1, <2>1, <2>2, <2>3
<1>3. CASE n.read = TRUE /\ n.side.peerWaitingWrite = FALSE /\ side.peerWaitingWrite = TRUE
  <2>1. One(n.read) = 1 /\ One(n.side.peerWaitingWrite) = 0 /\ One(side.peerWaitingWrite) = 1
    BY <1>3, Ones
  <2>2. n.read \in BOOLEAN
    BY <1>3
  <2> QED
    BY <1>1, <2>1, <2>2
<1> QED
  BY <1>1, <1>2, <1>3

\* After its step a receiving socket has said at most once that it waits, and
\* READ is under way for a writer that it no longer notes.
LEMMA ReceiverStep ==
  ASSUME Inv, NEW w \in BOOLEAN, NEW side \in ReadSide, NEW n, n = NotifyWriter(side),
         side.peerWaitingWrite = readSide.peerWaitingWrite,
         w = TRUE => readSide.sentWaitingRead = FALSE /\ side.sentWaitingRead = TRUE,
         w = FALSE => side.sentWaitingRead = readSide.sentWaitingRead,
         UNCHANGED writeSide,
         \/ readSide' = n.side /\ packets' = Sent(w, n.read)
         \/ readSide' = side /\ packets' = Sent(w, FALSE)
  PROVE  Inv'
<1>1. /\ n.side \in ReadSide /\ n.read \in BOOLEAN
      /\ n.side.sentWaitingRead = side.sentWaitingRead
      /\ One(n.side.peerWaitingWrite) + One(n.read) = One(side.peerWaitingWrite)
  BY NotifyWriterSum
<1>2. PICK r \in BOOLEAN :
        /\ packets' = Sent(w, r)
        /\ readSide' \in ReadSide
        /\ readSide'.sentWaitingRead = side.sentWaitingRead
        /\ One(readSide'.peerWaitingWrite) + One(r) = One(side.peerWaitingWrite)
  <2>1. CASE readSide' = n.side /\ packets' = Sent(w, n.read)
    BY <1>1, <2>1
  <2>2. CASE readSide' = side /\ packets' = Sent(w, FALSE)
    <3>1. PICK z \in BOOLEAN : z = FALSE
      OBVIOUS
    <3>2. One(readSide'.peerWaitingWrite) = One(side.peerWaitingWrite)
      BY <2>2, Zenon
    <3>3. One(z) = 0 /\ One(side.peerWaitingWrite) \in Nat
      BY <3>1, Ones
    <3>4. One(readSide'.peerWaitingWrite) + One(z) = One(side.peerWaitingWrite)
      BY <3>2, <3>3
    <3>5. packets' = Sent(w, z)
      BY <2>2, <3>1, Zenon
    <3> QED
      BY <2>2, <3>4, <3>5
  <2> QED
    BY <2>1, <2>2
<1>3. /\ packets' \in [Kinds -> Nat]
      /\ packets'["WAITING_READ"] = packets["WAITING_READ"] + One(w)
      /\ packets'["READ"] = packets["READ"] + One(r)
      /\ packets'["WROTE"] = packets["WROTE"]
      /\ packets'["WAITING_WRITE"] = packets["WAITING_WRITE"]
  BY <1>2, SentPackets DEF Inv, SidesOK
<1>4. SidesOK'
  BY <1>2, <1>3 DEF Inv, SidesOK
<1>5. /\ packets["WAITING_READ"] \in Nat /\ packets["WROTE"] \in Nat
      /\ packets["WAITING_WRITE"] \in Nat /\ packets["READ"] \in Nat
      /\ One(writeSide.peerWaitingRead) \in Nat /\ One(writeSide.sentWaitingWrite) \in Nat
      /\ One(readSide'.peerWaitingWrite) \in Nat /\ One(r) \in Nat
  BY Ones DEF Inv, SidesOK, Kinds
<1>6. /\ One(writeSide'.peerWaitingRead) = One(writeSide.peerWaitingRead)
      /\ One(writeSide'.sentWaitingWrite) = One(writeSide.sentWaitingWrite)
      /\ One(side.peerWaitingWrite) = One(readSide.peerWaitingWrite)
  BY Zenon
<1>7. SpaceHalf'
  <2>1. packets["WAITING_WRITE"] + One(readSide.peerWaitingWrite) + packets["READ"]
          = One(writeSide.sentWaitingWrite)
    BY DEF Inv, SpaceHalf
  <2>2. One(readSide'.peerWaitingWrite) + One(r) = One(readSide.peerWaitingWrite)
    BY <1>2, <1>6
  <2> QED
    BY <1>3, <1>5, <1>6, <2>1, <2>2 DEF SpaceHalf
<1>8. One(readSide'.sentWaitingRead) = One(readSide.sentWaitingRead) + One(w)
  <2>1. CASE w = TRUE
    <3>1. readSide.sentWaitingRead = FALSE /\ readSide'.sentWaitingRead = TRUE
      BY <1>2, <2>1, Zenon
    <3>2. One(readSide.sentWaitingRead) = 0 /\ One(readSide'.sentWaitingRead) = 1 /\ One(w) = 1
      BY <2>1, <3>1, Ones
    <3> QED
      BY <3>2
  <2>2. CASE w = FALSE
    <3>1. One(readSide'.sentWaitingRead) = One(readSide.sentWaitingRead)
      BY <1>2, <2>2, Zenon
    <3>2. One(w) = 0 /\ One(readSide.sentWaitingRead) \in Nat
      BY <2>2, Ones
    <3> QED
      BY <3>1, <3>2
  <2> QED
    BY <2>1, <2>2
<1>9. DataHalf'
  <2>1. packets["WAITING_READ"] + One(writeSide.peerWaitingRead) + packets["WROTE"]
          = One(readSide.sentWaitingRead)
    BY DEF Inv, DataHalf
  <2>2. One(w) \in Nat
    BY Ones
  <2> QED
    BY <1>3, <1>5, <1>6, <1>8, <2>1, <2>2 DEF DataHalf
<1> QED
  BY <1>4, <1>7, <1>9 DEF Inv

\* A receive that took bytes may tell the writer.
LEMMA RecvPostDequeueInv == Inv /\ RecvPostDequeue => Inv'
<1> SUFFICES ASSUME Inv, RecvPostDequeue PROVE Inv'
  OBVIOUS
<1> DEFINE n == NotifyWriter(readSide)
<1>1. PICK w \in BOOLEAN : w = FALSE
  OBVIOUS
<1>2. \/ readSide' = n.side /\ packets' = Sent(w, n.read)
      \/ readSide' = readSide /\ packets' = Sent(w, FALSE)
  <2>1. CASE reader.kind = "peek"
    BY <1>1, <2>1 DEF RecvPostDequeue
  <2>2. CASE reader.kind # "peek"
    BY <1>1, <2>2 DEF RecvPostDequeue
  <2> QED
    BY <2>1, <2>2
<1>3. readSide \in ReadSide /\ UNCHANGED writeSide
  BY DEF Inv, SidesOK, RecvPostDequeue
<1> HIDE DEF n
<1>4. n = NotifyWriter(readSide)
  BY DEF n
<1> QED
  BY <1>1, <1>2, <1>3, <1>4, ReceiverStep

\* A receive that blocks says so once, and may tell the writer.
LEMMA RecvPreBlockInv == Inv /\ RecvPreBlock => Inv'
<1> SUFFICES ASSUME Inv, RecvPreBlock PROVE Inv'
  OBVIOUS
<1> DEFINE w == ~readSide.sentWaitingRead
           side == IF w THEN [WidenWindow(readSide) EXCEPT !.sentWaitingRead = TRUE]
                   ELSE readSide
           n == NotifyWriter(side)
<1>1. readSide \in ReadSide /\ UNCHANGED writeSide
  BY DEF Inv, SidesOK, RecvPreBlock
<1>2. /\ side \in ReadSide
      /\ side.peerWaitingWrite = readSide.peerWaitingWrite
      /\ w = TRUE => readSide.sentWaitingRead = FALSE /\ side.sentWaitingRead = TRUE
      /\ w = FALSE => side.sentWaitingRead = readSide.sentWaitingRead
  <2>1. CASE readSide.sentWaitingRead
    BY <1>1, <2>1
  <2>2. CASE ~readSide.sentWaitingRead
    <3>1. side = [WidenWindow(readSide) EXCEPT !.sentWaitingRead = TRUE]
      BY <2>2
    <3>2. /\ WidenWindow(readSide) \in ReadSide
          /\ WidenWindow(readSide).peerWaitingWrite = readSide.peerWaitingWrite
      BY <1>1, WidenWindowFlags
    <3>3. readSide.sentWaitingRead = FALSE
      BY <1>1, <2>2 DEF ReadSide
    <3> QED
      BY <3>1, <3>2, <3>3 DEF ReadSide
  <2> QED
    BY <2>1, <2>2
<1>3. \/ readSide' = n.side /\ packets' = Sent(w, n.read)
      \/ readSide' = side /\ packets' = Sent(w, FALSE)
  <2>1. CASE reader.notifyOnBlock
    BY <2>1 DEF RecvPreBlock
  <2>2. CASE ~reader.notifyOnBlock
    BY <2>2 DEF RecvPreBlock
  <2> QED
    BY <2>1, <2>2
<1>4. w \in BOOLEAN /\ n = NotifyWriter(side)
  OBVIOUS
<1> HIDE DEF w, side, n
<1> QED
  BY <1>1, <1>2, <1>3, <1>4, ReceiverStep

\* A sender's request is answered or noted.
LEMMA HandleWaitingWriteInv == Inv /\ HandleWaitingWrite => Inv'
<1> SUFFICES ASSUME Inv, HandleWaitingWrite PROVE Inv'
  OBVIOUS
<1> DEFINE side == [readSide EXCEPT !.peerWaitingWrite = TRUE]
           n == NotifyWriter(side)
           p == Sent(FALSE, n.read)
<1>1. /\ writeSide' = writeSide /\ DataHalf /\ packets["WAITING_WRITE"] > 0
      /\ packets' = [p EXCEPT !["WAITING_WRITE"] = @ - 1] /\ readSide' = n.side
      /\ readSide \in ReadSide /\ packets \in [Kinds -> Nat]
  BY DEF HandleWaitingWrite, Inv, SidesOK
<1>2. /\ side \in ReadSide /\ side.peerWaitingWrite = TRUE
      /\ side.sentWaitingRead = readSide.sentWaitingRead
  BY <1>1 DEF ReadSide
<1> HIDE DEF side
<1>3. /\ n.side \in ReadSide /\ n.read \in BOOLEAN
      /\ n.side.sentWaitingRead = side.sentWaitingRead
      /\ One(n.side.peerWaitingWrite) + One(n.read) = One(side.peerWaitingWrite)
  BY <1>2, NotifyWriterSum
<1> HIDE DEF n
<1>4. PICK w \in BOOLEAN : w = FALSE
  OBVIOUS
<1>5. p = Sent(w, n.read)
  BY <1>4, Zenon DEF p
<1>6. /\ p \in [Kinds -> Nat]
      /\ p["WAITING_READ"] = packets["WAITING_READ"] + One(w)
      /\ p["READ"] = packets["READ"] + One(n.read)
      /\ p["WROTE"] = packets["WROTE"]
      /\ p["WAITING_WRITE"] = packets["WAITING_WRITE"]
  BY <1>1, <1>3, <1>5, SentPackets
<1>7. One(w) = 0 /\ packets["WAITING_READ"] \in Nat
  BY <1>1, <1>4, Ones DEF Kinds
<1> HIDE DEF p
<1>8. /\ packets' \in [Kinds -> Nat]
      /\ packets'["WAITING_WRITE"] = packets["WAITING_WRITE"] - 1
      /\ packets'["READ"] = packets["READ"] + One(n.read)
      /\ packets'["WAITING_READ"] = packets["WAITING_READ"]
      /\ packets'["WROTE"] = packets["WROTE"]
  BY <1>1, <1>6, <1>7, OneLess DEF Kinds
<1>9. SidesOK' /\ DataHalf'
  BY <1>1, <1>2, <1>3, <1>8, DataKept DEF Inv, SidesOK
<1>10. SpaceHalf'
  <2>1. packets["WAITING_WRITE"] + One(readSide.peerWaitingWrite) + packets["READ"]
          = One(writeSide.sentWaitingWrite)
    BY DEF Inv, SpaceHalf
  <2>2. /\ packets["WAITING_WRITE"] \in Nat /\ packets["READ"] \in Nat
        /\ packets["WAITING_WRITE"] > 0 /\ One(readSide.peerWaitingWrite) \in Nat
    BY <1>1, Ones DEF Kinds
  <2>3. writeSide.sentWaitingWrite = TRUE \/ writeSide.sentWaitingWrite = FALSE
    BY DEF Inv, SidesOK, WriteSide
  <2>4. One(writeSide.sentWaitingWrite) = 1 \/ One(writeSide.sentWaitingWrite) = 0
    BY <2>3, Ones
  <2>5. /\ packets["WAITING_WRITE"] = 1 /\ packets["READ"] = 0
        /\ One(writeSide.sentWaitingWrite) = 1
    BY <2>1, <2>2, <2>4
  <2>6. One(readSide'.peerWaitingWrite) + One(n.read) = 1
    <3>1. One(side.peerWaitingWrite) = 1
      BY <1>2, Ones
    <3>2. One(readSide'.peerWaitingWrite) = One(n.side.peerWaitingWrite)
      BY <1>1, Zenon
    <3> QED
      BY <1>3, <3>1, <3>2
  <2>7. One(writeSide'.sentWaitingWrite) = 1
    BY <1>1, <2>5, Zenon
  <2>8. One(readSide'.peerWaitingWrite) \in Nat /\ One(n.read) \in Nat
    BY Ones
  <2> QED
    BY <1>8, <2>5, <2>6, <2>7, <2>8 DEF SpaceHalf
<1> QED
  BY <1>9, <1>10 DEF Inv

-----------------------------------------------------------------------------
\* Every step keeps the invariant.
LEMMA NextInv == Inv /\ [Next]_vars => Inv'
<1> SUFFICES ASSUME Inv, [Next]_vars PROVE Inv'
  OBVIOUS
<1>1. ASSUME NEW n \in 0..MaxSend, StartSend(n) PROVE Inv'
  BY <1>1, SameSides DEF StartSend
<1>2. ASSUME NEW kind \in {"recv", "peek"}, NEW target \in 1..QueueSize - 1,
             NEW len \in 1..QueueSize - 1, NEW wait \in BOOLEAN,
             StartRecv(kind, target, len, wait)
      PROVE  Inv'
  BY <1>2, StartRecvInv
<1>3. CASE StartPoll \/ SenderGivesUp \/ ReaderGivesUp
  BY <1>3, SameSides DEF StartPoll, SenderGivesUp, ReaderGivesUp
<1>4. CASE SenderRuns
  <2>1. CASE CheckSpace \/ PollOutReady \/ Enqueue \/ Publish
    BY <2>1, SameSides DEF CheckSpace, PollOutReady, Enqueue, Publish
  <2> QED
    BY <1>4, <2>1, SendPreBlockInv, SendPostEnqueueInv DEF SenderRuns
<1>5. CASE ReaderRuns
  <2>1. CASE CheckData \/ Dequeue \/ Advance
    BY <2>1, SameSides DEF CheckData, Dequeue, Advance
  <2> QED
    BY <1>5, <2>1, RecvPreBlockInv, RecvPostDequeueInv DEF ReaderRuns
<1>6. CASE HandleWaitingRead \/ HandleRead \/ HandleWrote \/ HandleWaitingWrite
  BY <1>6, HandleWaitingReadInv, HandleReadInv, HandleWroteInv, HandleWaitingWriteInv
<1>7. CASE UNCHANGED vars
  BY <1>7, SameSides DEF vars
<1> QED
  BY <1>1, <1>2, <1>3, <1>4, <1>5, <1>6, <1>7 DEF Next

\* The invariant holds in every state.
THEOREM InvHolds == Spec => []Inv
<1> QED
  BY InitInv, NextInv, PTL DEF Spec

\* An end that says that it waits is answered exactly once before it says so
\* again (VSockVmciSendWaitingRead, VSockVmciSendWaitingWrite and the handlers
\* of notify.c): no request is lost, doubled or answered twice, for queues of
\* any size, packets in any order and calls that end in any way.
THEOREM AnsweredOnce == Spec => []WaitsAreAnsweredOnce
<1>1. Inv => WaitsAreAnsweredOnce
  BY DEF Inv, DataHalf, SpaceHalf, WaitsAreAnsweredOnce
<1> QED
  BY <1>1, InvHolds, PTL

-----------------------------------------------------------------------------
(* Types, with the arithmetic of the ring *)

\* Residues.
LEMMA Residue == \A x \in Int, m \in Nat \ {0} : x % m \in 0..m - 1
  OBVIOUS

\* An offset moved by less than the size stays inside.
LEMMA AddPointerOffset ==
  ASSUME NEW p \in Offset, NEW add \in 0..QueueSize - 1
  PROVE  AddPointer(p, add) \in Offset
  BY QueueSizeAssumption DEF AddPointer, Offset

\* Free and ready bytes share all of the ring but one.
LEMMA FreeAndReady ==
  ASSUME NEW tail \in Offset, NEW head \in Offset
  PROVE  /\ FreeSpace(tail, head) \in 0..QueueSize - 1
         /\ BufReady(tail, head) \in 0..QueueSize - 1
         /\ FreeSpace(tail, head) + BufReady(tail, head) = QueueSize - 1
  BY QueueSizeAssumption DEF FreeSpace, BufReady, Offset

Byte == 0..Numbers - 1

\* Copying bytes in leaves bytes in the ring.
LEMMA CopyIn ==
  ASSUME NEW buffer \in [Offset -> Byte], NEW tail \in Offset, NEW bytes \in Seq(Byte)
  PROVE  MemcpyToQueue(buffer, tail, bytes) \in [Offset -> Byte]
<1> SUFFICES ASSUME NEW i \in Offset
             PROVE  MemcpyToQueue(buffer, tail, bytes)[i] \in Byte
  BY DEF MemcpyToQueue
<1> DEFINE k == (i + QueueSize - tail) % QueueSize
<1>1. i + QueueSize - tail \in Int /\ QueueSize \in Nat \ {0}
  BY QueueSizeAssumption DEF Offset
<1>2. k \in 0..QueueSize - 1
  BY <1>1, Residue
<1> HIDE DEF k
<1>3. MemcpyToQueue(buffer, tail, bytes)[i]
        = IF k < Len(bytes) THEN bytes[k + 1] ELSE buffer[i]
  BY DEF MemcpyToQueue, k
<1>4. CASE k < Len(bytes)
  <2>1. k + 1 \in 1..Len(bytes)
    BY <1>2, <1>4
  <2>2. bytes[k + 1] \in Byte
    BY <2>1
  <2> QED
    BY <1>3, <1>4, <2>2
<1>5. CASE ~(k < Len(bytes))
  BY <1>3, <1>5
<1> QED
  BY <1>4, <1>5

\* Copying bytes out gives a sequence of as many bytes.
LEMMA CopyOut ==
  ASSUME NEW buffer \in [Offset -> Byte], NEW head \in Offset, NEW n \in Nat
  PROVE  /\ MemcpyFromQueue(buffer, head, n) \in Seq(Byte)
         /\ Len(MemcpyFromQueue(buffer, head, n)) = n
<1>1. ASSUME NEW k \in 1..n PROVE (head + k - 1) % QueueSize \in Offset
  <2>1. head + k - 1 \in Int /\ QueueSize \in Nat \ {0}
    BY QueueSizeAssumption DEF Offset
  <2> QED
    BY <2>1, Residue DEF Offset
<1>2. MemcpyFromQueue(buffer, head, n) \in [1..n -> Byte]
  BY <1>1 DEF MemcpyFromQueue
<1> QED
  BY <1>2

\* The numbers of the bytes of a send.
LEMMA NumberedBytes ==
  ASSUME NEW n \in Nat, NEW first \in Byte
  PROVE  [k \in 1..n |-> (first + k - 1) % Numbers] \in Seq(Byte)
<1>1. ASSUME NEW k \in 1..n PROVE (first + k - 1) % Numbers \in Byte
  <2>1. first + k - 1 \in Int /\ Numbers \in Nat \ {0}
    BY NotifyAssumption DEF Byte
  <2> QED
    BY <2>1, Residue DEF Byte
<1>2. [k \in 1..n |-> (first + k - 1) % Numbers] \in [1..n -> Byte]
  BY <1>1
<1> QED
  BY <1>2

\* The window stays a number of 64 bits.
Windows(side) == side.writeNotifyWindow \in 0..Word - 1 /\ side.writeNotifyMinWindow \in 0..Word - 1

LEMMA WidenWindowRange ==
  ASSUME NEW side \in ReadSide, Windows(side)
  PROVE  Windows(WidenWindow(side))
  BY NotifyAssumption, QueueSizeAssumption DEF WidenWindow, ReadSide, Windows

LEMMA ShrinkWindowRange ==
  ASSUME NEW side \in ReadSide, Windows(side)
  PROVE  Windows(ShrinkWindow(side))
<1> DEFINE w == (side.writeNotifyWindow + Word - PageSize) % Word
<1>1. side.writeNotifyWindow + Word - PageSize \in Int /\ Word \in Nat \ {0}
  BY NotifyAssumption, QueueSizeAssumption DEF ReadSide
<1>2. w \in 0..Word - 1
  BY <1>1, Residue
<1> HIDE DEF w
<1>3. ShrinkWindow(side) =
        IF side.peerWaitingWriteDetected THEN side
        ELSE [side EXCEPT !.peerWaitingWriteDetected = TRUE,
                          !.writeNotifyWindow = IF w < side.writeNotifyMinWindow
                                                THEN side.writeNotifyMinWindow ELSE w]
  BY DEF ShrinkWindow, w
<1> QED
  BY <1>2, <1>3 DEF ReadSide, Windows

LEMMA NotifyWriterRange ==
  ASSUME NEW side \in ReadSide, Windows(side)
  PROVE  Windows(NotifyWriter(side).side)
<1> DEFINE s == ShrinkWindow(side)
<1>1. s \in ReadSide /\ Windows(s)
  BY ShrinkWindowFlags, ShrinkWindowRange
<1>2. NotifyWriter(side) =
        IF ~side.peerWaitingWrite THEN [side |-> side, read |-> FALSE]
        ELSE IF Space > NotifyLimit(s)
        THEN [side |-> [s EXCEPT !.peerWaitingWriteDetected = FALSE, !.peerWaitingWrite = FALSE],
              read |-> TRUE]
        ELSE [side |-> s, read |-> FALSE]
  BY DEF NotifyWriter
<1> HIDE DEF s
<1> QED
  BY <1>1, <1>2 DEF ReadSide, Windows

LEMMA RecvInitRange ==
  ASSUME NEW target \in 1..QueueSize - 1, readSide \in ReadSide, Windows(readSide)
  PROVE  Windows(RecvInit(target).side)
<1> DEFINE min == target + 1
           raised == readSide.writeNotifyMinWindow < min
           widened == raised /\ readSide.writeNotifyWindow < min
           a == IF raised THEN min ELSE readSide.writeNotifyMinWindow
           b == IF widened THEN min ELSE readSide.writeNotifyWindow
<1>1. RecvInit(target).side
        = [readSide EXCEPT !.writeNotifyMinWindow = a, !.writeNotifyWindow = b]
  BY DEF RecvInit
<1>2. min \in 0..Word - 1
  BY NotifyAssumption, QueueSizeAssumption
<1>3. a \in 0..Word - 1 /\ b \in 0..Word - 1
  BY <1>2 DEF Windows
<1> HIDE DEF a, b
<1> QED
  BY <1>1, <1>3 DEF ReadSide, Windows

Ring == [buffer : [Offset -> Byte], tail : Offset, head : Offset]
Sender == [pc : SenderPc, want : 0..MaxSend, count : 0..QueueSize - 1]
Reader == [pc : ReaderPc, kind : {"recv", "peek", "poll"},
           target : 0..QueueSize - 1, len : 0..QueueSize - 1,
           notifyOnBlock : BOOLEAN, got : Seq(Byte)]

\* A send has no more bytes to publish than to send, and a receive took no
\* more than the ring holds: what the offsets need to stay inside.
RingOK == ring \in Ring
SenderOK == sender \in Sender /\ sender.count <= sender.want /\ sent \in Byte
ReaderOK == reader \in Reader /\ Len(reader.got) < QueueSize
CallsOK == RingOK /\ SenderOK /\ ReaderOK

LEMMA InitCalls == Init => CallsOK /\ Windows(readSide)
<1> SUFFICES ASSUME Init PROVE CallsOK /\ Windows(readSide)
  OBVIOUS
<1> USE NotifyAssumption, QueueSizeAssumption
<1>1. RingOK
  BY DEF Init, RingOK, Ring, Byte, Offset
<1>2. SenderOK
  BY DEF Init, SenderOK, Sender, NoSend, SenderPc, Byte
<1>3. ReaderOK
  BY DEF Init, ReaderOK, Reader, NoRecv, ReaderPc
<1>4. Windows(readSide)
  BY DEF Init, Windows
<1> QED
  BY <1>1, <1>2, <1>3, <1>4 DEF CallsOK

\* A step of the sending end.
LEMMA EnqueueCalls == CallsOK /\ Enqueue => CallsOK'
<1> SUFFICES ASSUME CallsOK, Enqueue PROVE CallsOK'
  OBVIOUS
<1> DEFINE n == IF Space < sender.want THEN Space ELSE sender.want
           bytes == [k \in 1..n |-> (sent + k - 1) % Numbers]
           buffer == MemcpyToQueue(ring.buffer, ring.tail, bytes)
<1>1. /\ ring' = [ring EXCEPT !.buffer = buffer]
      /\ sender' = [sender EXCEPT !.pc = "publish", !.count = n]
      /\ sent' = sent /\ reader' = reader
  BY DEF Enqueue
<1>2. Space \in 0..QueueSize - 1
  BY FreeAndReady DEF Space, CallsOK, RingOK, Ring
<1>3. n \in 0..QueueSize - 1 /\ n <= sender.want
  BY <1>2, QueueSizeAssumption DEF CallsOK, SenderOK, Sender
<1> HIDE DEF n
<1>4. bytes \in Seq(Byte)
  BY <1>3, NumberedBytes DEF CallsOK, SenderOK
<1> HIDE DEF bytes
<1>5. buffer \in [Offset -> Byte]
  BY <1>4, CopyIn DEF CallsOK, RingOK, Ring
<1> HIDE DEF buffer
<1>6. RingOK'
  BY <1>1, <1>5 DEF CallsOK, RingOK, Ring
<1>7. SenderOK'
  BY <1>1, <1>3 DEF CallsOK, SenderOK, Sender, SenderPc
<1> QED
  BY <1>1, <1>6, <1>7 DEF CallsOK, ReaderOK

LEMMA PublishCalls == CallsOK /\ Publish => CallsOK'
<1> SUFFICES ASSUME CallsOK, Publish PROVE CallsOK'
  OBVIOUS
<1>1. AddPointer(ring.tail, sender.count) \in Offset
  BY AddPointerOffset DEF CallsOK, RingOK, Ring, SenderOK, Sender
<1>2. RingOK'
  BY <1>1 DEF Publish, CallsOK, RingOK, Ring
<1>3. (sent + sender.count) % Numbers \in Byte
  <2>1. sent + sender.count \in Int /\ Numbers \in Nat \ {0}
    BY NotifyAssumption DEF CallsOK, SenderOK, Sender, Byte
  <2> QED
    BY <2>1, Residue DEF Byte
<1>4. sender.want - sender.count \in 0..MaxSend
  BY NotifyAssumption DEF CallsOK, SenderOK, Sender
<1>5. /\ sender' = [sender EXCEPT !.pc = "post", !.want = @ - sender.count, !.count = 0]
      /\ sent' = (sent + sender.count) % Numbers
  BY DEF Publish
<1>6. SenderOK'
  <2>1. sender' \in Sender /\ sender'.count = 0 /\ sender'.want = sender.want - sender.count
    <3>1. sender \in Sender
      BY DEF CallsOK, SenderOK
    <3>2. sender' = [pc |-> "post", want |-> sender.want - sender.count, count |-> 0]
      BY <1>5, <3>1 DEF Sender
    <3>3. 0 \in 0..QueueSize - 1 /\ "post" \in SenderPc
      BY QueueSizeAssumption DEF SenderPc
    <3> QED
      BY <1>4, <3>2, <3>3 DEF Sender
  <2> QED
    BY <1>3, <1>4, <1>5, <2>1 DEF SenderOK
<1> QED
  BY <1>2, <1>6 DEF Publish, CallsOK, ReaderOK

LEMMA SenderCalls ==
  ASSUME CallsOK,
         UNCHANGED <<ring, reader, sent>>,
         \/ sender' \in {sender, NoSend}
         \/ \E pc \in SenderPc : sender' = [sender EXCEPT !.pc = pc]
         \/ \E n \in 0..MaxSend : sender' = [pc |-> "check", want |-> n, count |-> 0]
  PROVE  CallsOK'
<1>1. sender' \in Sender /\ sender'.count <= sender'.want
  BY NotifyAssumption, QueueSizeAssumption DEF CallsOK, SenderOK, Sender, SenderPc, NoSend
<1> QED
  BY <1>1 DEF CallsOK, RingOK, SenderOK, ReaderOK

\* A step of the receiving end.
LEMMA DequeueCalls == CallsOK /\ Dequeue => CallsOK'
<1> SUFFICES ASSUME CallsOK, Dequeue PROVE CallsOK'
  OBVIOUS
<1> DEFINE n == IF Ready < reader.len THEN Ready ELSE reader.len
           bytes == MemcpyFromQueue(ring.buffer, ring.head, n)
           pc == IF reader.kind = "peek" THEN "post" ELSE "advance"
<1>1. reader' = [reader EXCEPT !.pc = pc, !.len = 0, !.got = bytes]
  BY DEF Dequeue
<1>2. Ready \in 0..QueueSize - 1
  BY FreeAndReady DEF Ready, CallsOK, RingOK, Ring
<1>3. n \in 0..QueueSize - 1
  BY <1>2 DEF CallsOK, ReaderOK, Reader
<1> HIDE DEF n
<1>4. bytes \in Seq(Byte) /\ Len(bytes) = n
  BY <1>3, CopyOut DEF CallsOK, RingOK, Ring
<1>5. pc \in ReaderPc
  BY DEF ReaderPc
<1> HIDE DEF bytes, pc
<1>6. ReaderOK'
  <2>1. reader' \in Reader /\ reader'.got = bytes
    <3>1. reader \in Reader
      BY DEF CallsOK, ReaderOK
    <3>2. reader' = [pc |-> pc, kind |-> reader.kind, target |-> reader.target, len |-> 0,
                     notifyOnBlock |-> reader.notifyOnBlock, got |-> bytes]
      BY <1>1, <3>1 DEF Reader
    <3>3. 0 \in 0..QueueSize - 1
      BY QueueSizeAssumption
    <3> QED
      BY <1>4, <1>5, <3>1, <3>2, <3>3 DEF Reader
  <2> QED
    BY <1>3, <1>4, <2>1, QueueSizeAssumption DEF ReaderOK
<1> QED
  BY <1>6 DEF Dequeue, CallsOK, RingOK, SenderOK

LEMMA AdvanceCalls == CallsOK /\ Advance => CallsOK'
<1> SUFFICES ASSUME CallsOK, Advance PROVE CallsOK'
  OBVIOUS
<1>1. Len(reader.got) \in 0..QueueSize - 1
  <2>1. Len(reader.got) \in Nat
    BY DEF CallsOK, ReaderOK, Reader
  <2> QED
    BY <2>1, QueueSizeAssumption DEF CallsOK, ReaderOK
<1>2. AddPointer(ring.head, Len(reader.got)) \in Offset
  BY <1>1, AddPointerOffset DEF CallsOK, RingOK, Ring
<1>3. RingOK'
  BY <1>2 DEF Advance, CallsOK, RingOK, Ring
<1>4. ReaderOK'
  <2>1. reader' \in Reader /\ reader'.got = <<>>
    <3>1. reader \in Reader
      BY DEF CallsOK, ReaderOK
    <3>2. reader' = [pc |-> "post", kind |-> reader.kind, target |-> reader.target,
                     len |-> reader.len, notifyOnBlock |-> reader.notifyOnBlock, got |-> <<>>]
      BY <3>1 DEF Advance, Reader
    <3> QED
      BY <3>1, <3>2 DEF Reader, ReaderPc
  <2> QED
    BY <2>1, QueueSizeAssumption DEF ReaderOK
<1> QED
  BY <1>3, <1>4 DEF Advance, CallsOK, SenderOK

LEMMA ReaderCalls ==
  ASSUME CallsOK,
         UNCHANGED <<ring, sender, sent>>,
         reader' \in Reader,
         reader'.got \in {<<>>, reader.got}
  PROVE  CallsOK'
<1>1. Len(reader'.got) < QueueSize
  BY QueueSizeAssumption DEF CallsOK, ReaderOK
<1> QED
  BY <1>1 DEF CallsOK, RingOK, SenderOK, ReaderOK

\* Every step keeps the types of the calls and of the queue.
LEMMA NextCalls == CallsOK /\ [Next]_vars => CallsOK'
<1> SUFFICES ASSUME CallsOK, [Next]_vars PROVE CallsOK'
  OBVIOUS
<1>0. NoRecv \in Reader /\ NoRecv.got = <<>>
  BY QueueSizeAssumption DEF NoRecv, Reader, ReaderPc
<1>1. ASSUME NEW n \in 0..MaxSend, StartSend(n) PROVE CallsOK'
  BY <1>1, SenderCalls DEF StartSend
<1>2. ASSUME NEW kind \in {"recv", "peek"}, NEW target \in 1..QueueSize - 1,
             NEW len \in 1..QueueSize - 1, NEW wait \in BOOLEAN,
             StartRecv(kind, target, len, wait)
      PROVE  CallsOK'
  <2>1. PICK b \in BOOLEAN, pc \in ReaderPc :
          reader' = [pc |-> pc, kind |-> kind, target |-> target,
                     len |-> len, notifyOnBlock |-> b, got |-> <<>>]
    BY <1>2 DEF StartRecv, RecvInit, ReaderPc
  <2>2. reader' \in Reader /\ reader'.got = <<>>
    BY <2>1 DEF Reader
  <2> QED
    BY <1>2, <2>2, ReaderCalls DEF StartRecv
<1>3. CASE StartPoll
  <2>1. reader' = [pc |-> "check", kind |-> "poll", target |-> 1, len |-> 0,
                   notifyOnBlock |-> FALSE, got |-> <<>>]
    BY <1>3 DEF StartPoll, NoRecv
  <2>2. reader' \in Reader /\ reader'.got = <<>>
    BY <2>1, QueueSizeAssumption DEF Reader, ReaderPc
  <2> QED
    BY <1>3, <2>2, ReaderCalls DEF StartPoll
<1>4. CASE SenderGivesUp \/ CheckSpace \/ SendPreBlock \/ PollOutReady \/ SendPostEnqueue
  BY <1>4, SenderCalls
  DEF SenderGivesUp, CheckSpace, SendPreBlock, PollOutReady, SendPostEnqueue, SenderGoto, SenderPc
<1>5. CASE ReaderGivesUp \/ RecvPostDequeue
  BY <1>0, <1>5, ReaderCalls DEF ReaderGivesUp, RecvPostDequeue
<1>6. CASE CheckData
  <2>1. reader' \in Reader /\ reader'.got \in {<<>>, reader.got}
    <3>1. reader \in Reader
      BY DEF CallsOK, ReaderOK
    <3>2. [reader EXCEPT !.pc = "block"] \in Reader /\ [reader EXCEPT !.pc = "block"].got = reader.got
      BY <3>1 DEF Reader, ReaderPc
    <3> DEFINE r == [reader EXCEPT !.pc = "copy", !.target = 0, !.notifyOnBlock = FALSE]
    <3>3. r \in Reader /\ r.got = reader.got
      <4> DEFINE t == [reader EXCEPT !.pc = "copy"]
                 u == [t EXCEPT !.target = 0]
      <4>1. t \in Reader /\ t.got = reader.got
        BY <3>1 DEF Reader, ReaderPc
      <4> HIDE DEF t
      <4>2. u \in Reader /\ u.got = reader.got
        BY <4>1, QueueSizeAssumption DEF Reader
      <4>3. r = [u EXCEPT !.notifyOnBlock = FALSE]
        BY Zenon DEF t
      <4> HIDE DEF r, u
      <4> QED
        BY <4>2, <4>3 DEF Reader
    <3>4. reader' \in {[reader EXCEPT !.pc = "block"], NoRecv, r}
      BY <1>6 DEF CheckData
    <3> HIDE DEF r
    <3> QED
      BY <1>0, <3>2, <3>3, <3>4
  <2> QED
    BY <1>6, <2>1, ReaderCalls DEF CheckData
<1>7. CASE RecvPreBlock
  <2>1. reader' \in Reader /\ reader'.got = reader.got
    BY <1>7 DEF RecvPreBlock, CallsOK, ReaderOK, Reader, ReaderPc
  <2> QED
    BY <1>7, <2>1, ReaderCalls DEF RecvPreBlock
<1>8. CASE HandleWaitingRead \/ HandleRead
  BY <1>8, SenderCalls DEF HandleWaitingRead, HandleRead, SenderPc
<1>9. CASE HandleWrote \/ HandleWaitingWrite
  <2>1. reader' \in Reader /\ reader'.got = reader.got
    BY <1>9 DEF HandleWrote, HandleWaitingWrite, CallsOK, ReaderOK, Reader, ReaderPc
  <2> QED
    BY <1>9, <2>1, ReaderCalls DEF HandleWrote, HandleWaitingWrite
<1>10. CASE UNCHANGED vars
  BY <1>10 DEF vars, CallsOK, RingOK, SenderOK, ReaderOK
<1> QED
  BY <1>1, <1>2, <1>3, <1>4, <1>5, <1>6, <1>7, <1>8, <1>9, <1>10,
     EnqueueCalls, PublishCalls, DequeueCalls, AdvanceCalls
  DEF Next, SenderRuns, ReaderRuns

\* Every step keeps the windows.
LEMMA NextWindows == Inv /\ Windows(readSide) /\ [Next]_vars => Windows(readSide')
<1> SUFFICES ASSUME readSide \in ReadSide, Windows(readSide), [Next]_vars
             PROVE  Windows(readSide')
  BY DEF Inv, SidesOK
<1>1. CASE readSide' = readSide
  BY <1>1
<1>2. ASSUME NEW kind \in {"recv", "peek"}, NEW target \in 1..QueueSize - 1,
             NEW len \in 1..QueueSize - 1, NEW wait \in BOOLEAN,
             StartRecv(kind, target, len, wait)
      PROVE  Windows(readSide')
  BY <1>2, RecvInitRange DEF StartRecv
<1>3. CASE RecvPreBlock
  <2> DEFINE wide == WidenWindow(readSide)
             said == [wide EXCEPT !.sentWaitingRead = TRUE]
  <2>1. wide \in ReadSide /\ Windows(wide)
    BY WidenWindowFlags, WidenWindowRange
  <2> HIDE DEF wide
  <2>2. said \in ReadSide /\ Windows(said)
    BY <2>1 DEF ReadSide, Windows
  <2>3. PICK side \in {readSide, said} : readSide' = side \/ readSide' = NotifyWriter(side).side
    BY <1>3 DEF RecvPreBlock, wide
  <2> HIDE DEF said
  <2> QED
    BY <2>2, <2>3, NotifyWriterRange
<1>4. CASE RecvPostDequeue
  <2>1. readSide' = readSide \/ readSide' = NotifyWriter(readSide).side
    BY <1>4 DEF RecvPostDequeue
  <2> QED
    BY <2>1, NotifyWriterRange
<1>5. CASE HandleWrote
  BY <1>5 DEF HandleWrote, ReadSide, Windows
<1>6. CASE HandleWaitingWrite
  <2> DEFINE side == [readSide EXCEPT !.peerWaitingWrite = TRUE]
  <2>1. side \in ReadSide /\ Windows(side)
    BY DEF ReadSide, Windows
  <2>2. readSide' = NotifyWriter(side).side
    BY <1>6 DEF HandleWaitingWrite
  <2> HIDE DEF side
  <2> QED
    BY <2>1, <2>2, NotifyWriterRange
<1>7. \/ readSide' = readSide
      \/ \E kind \in {"recv", "peek"}, target, len \in 1..QueueSize - 1, wait \in BOOLEAN :
           StartRecv(kind, target, len, wait)
      \/ RecvPreBlock \/ RecvPostDequeue \/ HandleWrote \/ HandleWaitingWrite
  BY DEF Next, vars, StartSend, StartPoll, SenderGivesUp, ReaderGivesUp, SenderRuns, ReaderRuns,
         CheckSpace, SendPreBlock, PollOutReady, Enqueue, Publish, SendPostEnqueue,
         CheckData, Dequeue, Advance, HandleWaitingRead, HandleRead
<1> QED
  BY <1>1, <1>2, <1>3, <1>4, <1>5, <1>6, <1>7

\* All of it holds in every state.
LEMMA CallsHold == Spec => [](Inv /\ CallsOK /\ Windows(readSide))
<1>1. Init => Inv /\ CallsOK /\ Windows(readSide)
  BY InitInv, InitCalls
<1>2. /\ Inv /\ CallsOK /\ Windows(readSide)
      /\ [Next]_vars
      => (Inv /\ CallsOK /\ Windows(readSide))'
  <2>1. Windows(readSide') <=> Windows(readSide)'
    BY DEF Windows
  <2> QED
    BY <2>1, NextInv, NextCalls, NextWindows
<1> QED
  BY <1>1, <1>2, PTL DEF Spec

\* Types: the offsets stay inside the queue although either end moves its own
\* while the other one copies, no send and no receive takes more than the
\* queue holds, and the window stays a number of 64 bits.
THEOREM TypeCorrect == Spec => []TypeOK
<1>1. Inv /\ CallsOK /\ Windows(readSide) => TypeOK
  BY DEF Inv, SidesOK, WriteSide, ReadSide, Windows, CallsOK, RingOK, SenderOK, ReaderOK,
         Ring, Sender, Reader, Byte, TypeOK
<1> QED
  BY <1>1, CallsHold, PTL

-----------------------------------------------------------------------------
(***************************************************************************)
(* Proofs about the window by which a receiving end holds up a sender that *)
(* waits (VSockVmciNotifyWaitingWrite, VSockVmciNotifyPktRecvInit), for    *)
(* queues of a page and more, when receives that do not wait want less than *)
(* a page.  Configurations show what happens without either: the unsigned  *)
(* window wraps around, and a receive that does not wait raises the window *)
(* and tells nobody.                                                       *)
(***************************************************************************)

\* The smallest window and the window stay between a page and the queue.
Fits(side) ==
  /\ side.writeNotifyMinWindow \in PageSize..QueueSize
  /\ side.writeNotifyWindow \in side.writeNotifyMinWindow..QueueSize

\* What is being copied by one end is not touched by the other one.
Room ==
  /\ sender.count <= Space
  /\ reader.pc = "advance" => Len(reader.got) <= Ready /\ reader.kind # "peek"

\* A receive that may block wants fewer bytes than the smallest window, and
\* blocks over a waiting sender only if it raised the window itself.
Blocks ==
  /\ reader.pc \in {"check", "block", "asleep"} =>
       reader.target < readSide.writeNotifyMinWindow
  /\ reader.notifyOnBlock =>
       reader.pc \in {"check", "block"} /\ readSide.writeNotifyWindow = reader.target + 1
  /\ reader.pc = "block" /\ readSide.peerWaitingWrite => reader.notifyOnBlock

\* HeldUpByWindow, in the midst of a receive: until the bytes have been taken.
Held ==
  (/\ readSide.peerWaitingWrite
   /\ ~reader.notifyOnBlock
   /\ reader.pc # "post" \/ reader.kind = "peek") =>
     Ready + 1 >= readSide.writeNotifyWindow

Window == Fits(readSide) /\ Room /\ Blocks /\ Held

\* Queues of a page and more; receives that do not wait want less than a page.
Usable == PageSize <= QueueSize /\ \A t \in HasteFor : t < PageSize

-----------------------------------------------------------------------------
(* The ring *)

LEMMA Wrapped == \A m \in Nat \ {0} : \A x \in 0..m - 1 : (x + m) % m = x
  OBVIOUS

\* Moving the tail makes bytes ready, moving the head frees them.
LEMMA TailMoves ==
  ASSUME NEW tail \in Offset, NEW head \in Offset, NEW n \in 0..FreeSpace(tail, head)
  PROVE  BufReady(AddPointer(tail, n), head) = BufReady(tail, head) + n
  BY QueueSizeAssumption DEF AddPointer, BufReady, FreeSpace, Offset

LEMMA HeadMoves ==
  ASSUME NEW tail \in Offset, NEW head \in Offset, NEW n \in 0..BufReady(tail, head)
  PROVE  FreeSpace(tail, AddPointer(head, n)) = FreeSpace(tail, head) + n
  BY QueueSizeAssumption DEF AddPointer, BufReady, FreeSpace, Offset

\* Space and ready bytes of the queue.
LEMMA SpaceAndReady ==
  ASSUME RingOK
  PROVE  /\ Space \in 0..QueueSize - 1 /\ Ready \in 0..QueueSize - 1
         /\ Space + Ready = QueueSize - 1
  BY FreeAndReady DEF RingOK, Ring, Space, Ready

-----------------------------------------------------------------------------
(* The window *)

\* A wait makes the window larger, by no more than the queue.
LEMMA WidenFits ==
  ASSUME NEW side \in ReadSide, Fits(side)
  PROVE  /\ Fits(WidenWindow(side))
         /\ WidenWindow(side).writeNotifyMinWindow = side.writeNotifyMinWindow
  BY NotifyAssumption, QueueSizeAssumption DEF WidenWindow, ReadSide, Fits

\* A window of a page and more does not wrap around when it shrinks.
LEMMA ShrinkFits ==
  ASSUME NEW side \in ReadSide, Fits(side)
  PROVE  /\ Fits(ShrinkWindow(side))
         /\ ShrinkWindow(side).writeNotifyMinWindow = side.writeNotifyMinWindow
<1> DEFINE x == side.writeNotifyWindow - PageSize
           w == (side.writeNotifyWindow + Word - PageSize) % Word
<1>1. x \in 0..Word - 1 /\ x <= QueueSize
  BY NotifyAssumption, QueueSizeAssumption DEF Fits
<1>2. side.writeNotifyWindow + Word - PageSize = x + Word
  BY NotifyAssumption, QueueSizeAssumption DEF ReadSide
<1> HIDE DEF x
<1>3. w = x
  <2>1. Word \in Nat \ {0}
    BY NotifyAssumption, QueueSizeAssumption
  <2>2. (x + Word) % Word = x
    BY <1>1, <2>1, Wrapped
  <2> QED
    BY <1>2, <2>2
<1> HIDE DEF w
<1>4. ShrinkWindow(side) =
        IF side.peerWaitingWriteDetected THEN side
        ELSE [side EXCEPT !.peerWaitingWriteDetected = TRUE,
                          !.writeNotifyWindow = IF w < side.writeNotifyMinWindow
                                                THEN side.writeNotifyMinWindow ELSE w]
  BY DEF ShrinkWindow, w
<1> QED
  BY <1>1, <1>3, <1>4, NotifyAssumption, QueueSizeAssumption DEF ReadSide, Fits, x

\* The limit is what the window leaves of the queue.
LEMMA LimitFits ==
  ASSUME NEW side \in ReadSide, Fits(side)
  PROVE  NotifyLimit(side) = QueueSize - side.writeNotifyWindow
<1> DEFINE x == QueueSize - side.writeNotifyWindow
<1>1. x \in 0..Word - 1 /\ QueueSize + Word - side.writeNotifyWindow = x + Word
  BY NotifyAssumption, QueueSizeAssumption DEF Fits, ReadSide
<1> HIDE DEF x
<1>2. NotifyLimit(side) = x
  BY <1>1, Wrapped, NotifyAssumption, QueueSizeAssumption DEF NotifyLimit
<1> QED
  BY <1>2 DEF x

\* A writer that is still waiting after it was looked for is held up by the
\* window.
LEMMA NotifyWriterHolds ==
  ASSUME NEW side \in ReadSide, Fits(side), RingOK, NEW n, n = NotifyWriter(side).side
  PROVE  /\ Fits(n)
         /\ n.writeNotifyMinWindow = side.writeNotifyMinWindow
         /\ n.peerWaitingWrite => Ready + 1 >= n.writeNotifyWindow
<1> DEFINE s == ShrinkWindow(side)
           t == [s EXCEPT !.peerWaitingWriteDetected = FALSE, !.peerWaitingWrite = FALSE]
<1>1. s \in ReadSide /\ Fits(s) /\ s.writeNotifyMinWindow = side.writeNotifyMinWindow
  BY ShrinkWindowFlags, ShrinkFits
<1>2. n = IF ~side.peerWaitingWrite THEN side ELSE IF Space > NotifyLimit(s) THEN t ELSE s
  BY DEF NotifyWriter
<1>3. NotifyLimit(s) = QueueSize - s.writeNotifyWindow
  BY <1>1, LimitFits
<1> HIDE DEF s
<1>4. CASE ~side.peerWaitingWrite
  BY <1>2, <1>4
<1>5. CASE side.peerWaitingWrite /\ Space > NotifyLimit(s)
  <2>1. /\ n.writeNotifyMinWindow = s.writeNotifyMinWindow
        /\ n.writeNotifyWindow = s.writeNotifyWindow
        /\ ~n.peerWaitingWrite
    BY <1>1, <1>2, <1>5 DEF ReadSide
  <2> QED
    BY <1>1, <2>1 DEF Fits
<1>6. CASE side.peerWaitingWrite /\ ~(Space > NotifyLimit(s))
  <2>1. n = s
    BY <1>2, <1>6
  <2>2. Ready + 1 >= s.writeNotifyWindow
    BY <1>1, <1>3, <1>6, SpaceAndReady, QueueSizeAssumption DEF ReadSide
  <2> QED
    BY <1>1, <2>1, <2>2
<1> QED
  BY <1>4, <1>5, <1>6

\* A receive raises the smallest window to more than it wants, and the window
\* with it only if it notifies on block.
LEMMA RecvInitFits ==
  ASSUME NEW target \in 1..QueueSize - 1, readSide \in ReadSide, Fits(readSide),
         NEW init, init = RecvInit(target)
  PROVE  /\ Fits(init.side)
         /\ target < init.side.writeNotifyMinWindow
         /\ init.notifyOnBlock \in BOOLEAN
         /\ init.notifyOnBlock => target >= PageSize /\ init.side.writeNotifyWindow = target + 1
         /\ ~init.notifyOnBlock => init.side.writeNotifyWindow = readSide.writeNotifyWindow
<1> DEFINE min == target + 1
           raised == readSide.writeNotifyMinWindow < min
           widened == raised /\ readSide.writeNotifyWindow < min
           a == IF raised THEN min ELSE readSide.writeNotifyMinWindow
           b == IF widened THEN min ELSE readSide.writeNotifyWindow
           s == [readSide EXCEPT !.writeNotifyMinWindow = a, !.writeNotifyWindow = b]
<1>1. init.side = s /\ init.notifyOnBlock = widened
  BY DEF RecvInit
<1>2. /\ a \in PageSize..QueueSize /\ b \in a..QueueSize /\ target < a
      /\ widened => target >= PageSize /\ b = target + 1
      /\ ~widened => b = readSide.writeNotifyWindow
  BY NotifyAssumption, QueueSizeAssumption DEF Fits, ReadSide
<1>3. widened \in BOOLEAN
  OBVIOUS
<1> HIDE DEF a, b, widened
<1>4. s.writeNotifyMinWindow = a /\ s.writeNotifyWindow = b
  BY DEF ReadSide
<1> QED
  BY <1>1, <1>2, <1>3, <1>4 DEF Fits

-----------------------------------------------------------------------------
(* Steps *)

LEMMA InitWindow == Usable /\ Init => Window
<1> SUFFICES ASSUME Usable, Init PROVE Window
  OBVIOUS
<1>1. Fits(readSide)
  BY NotifyAssumption, QueueSizeAssumption DEF Usable, Init, Fits
<1>2. Room
  BY QueueSizeAssumption DEF Init, Room, NoSend, NoRecv, Space, FreeSpace
<1>3. Blocks /\ Held
  BY DEF Init, Blocks, Held, NoRecv
<1> QED
  BY <1>1, <1>2, <1>3 DEF Window

\* Steps of the sending end that leave the offsets alone.
LEMMA SenderSteps ==
  ASSUME Window, UNCHANGED <<reader, readSide>>,
         ring'.tail = ring.tail, ring'.head = ring.head,
         sender'.count <= Space
  PROVE  Window'
<1>1. Space' = Space /\ Ready' = Ready
  BY DEF Space, Ready
<1> QED
  BY <1>1 DEF Window, Fits, Room, Blocks, Held

\* The bytes that were copied make the window's bytes more.
LEMMA PublishWindow == CallsOK /\ Window /\ Publish => Window'
<1> SUFFICES ASSUME CallsOK, Window, Publish PROVE Window'
  OBVIOUS
<1>1. /\ ring \in Ring /\ sender \in Sender /\ sender.count <= Space
      /\ ring' = [ring EXCEPT !.tail = AddPointer(@, sender.count)]
      /\ sender' = [sender EXCEPT !.pc = "post", !.want = @ - sender.count, !.count = 0]
      /\ reader' = reader /\ readSide' = readSide
  BY DEF Publish, CallsOK, RingOK, SenderOK, Window, Room
<1>2. sender.count \in 0..FreeSpace(ring.tail, ring.head)
  BY <1>1 DEF Sender, Space
<1>3. ring'.tail = AddPointer(ring.tail, sender.count) /\ ring'.head = ring.head
  BY <1>1 DEF Ring
<1>4. Ready' = Ready + sender.count
  BY <1>1, <1>2, <1>3, TailMoves DEF Ready, Ring
<1>5. sender'.count = 0
  BY <1>1 DEF Sender
<1>6. Space' \in Nat
  BY PublishCalls, FreeAndReady DEF CallsOK, RingOK, Ring, Space
<1>7. Ready \in Nat /\ sender.count \in Nat
  BY <1>1, SpaceAndReady DEF RingOK, Sender
<1>8. Room'
  <2>1. reader.pc = "advance" => Len(reader.got) <= Ready /\ reader.kind # "peek"
    BY DEF Window, Room
  <2>2. Len(reader.got) \in Nat
    BY DEF CallsOK, ReaderOK, Reader
  <2> QED
    BY <1>1, <1>4, <1>5, <1>6, <1>7, <2>1, <2>2 DEF Room
<1>9. Held'
  <2>1. Held /\ readSide.writeNotifyWindow \in Int
    BY NotifyAssumption, QueueSizeAssumption DEF Window, Fits
  <2> QED
    BY <1>1, <1>4, <1>7, <2>1 DEF Held
<1> QED
  BY <1>1, <1>8, <1>9 DEF Window, Fits, Blocks

\* A receive that raises the window over a waiting sender will notify.
LEMMA StartRecvWindow ==
  ASSUME Usable, Inv, Window,
         NEW kind \in {"recv", "peek"}, NEW target \in 1..QueueSize - 1,
         NEW len \in 1..QueueSize - 1, NEW wait \in BOOLEAN,
         StartRecv(kind, target, len, wait)
  PROVE  Window'
<1> DEFINE init == RecvInit(target)
<1>1. readSide \in ReadSide
  BY DEF Inv, SidesOK
<1>2. /\ Fits(init.side)
      /\ target < init.side.writeNotifyMinWindow
      /\ init.notifyOnBlock \in BOOLEAN
      /\ init.notifyOnBlock => target >= PageSize /\ init.side.writeNotifyWindow = target + 1
      /\ ~init.notifyOnBlock => init.side.writeNotifyWindow = readSide.writeNotifyWindow
      /\ init.side.peerWaitingWrite = readSide.peerWaitingWrite
  BY <1>1, RecvInitFits, RecvInitFlags DEF Window
<1> HIDE DEF init
<1>3. /\ readSide' = init.side
      /\ reader' = [pc |-> IF wait THEN "check" ELSE "try", kind |-> kind, target |-> target,
                    len |-> len, notifyOnBlock |-> init.notifyOnBlock, got |-> <<>>]
      /\ UNCHANGED <<ring, sender>>
      /\ reader.pc = "idle"
      /\ wait \/ target \in HasteFor
  BY DEF StartRecv, init
<1>4. /\ reader'.pc \in {"check", "try"} /\ reader'.target = target
      /\ reader'.notifyOnBlock = init.notifyOnBlock
      /\ wait => reader'.pc = "check"
  BY <1>3
<1>5. init.notifyOnBlock => wait
  BY <1>2, <1>3, NotifyAssumption, QueueSizeAssumption DEF Usable
<1>6. Space' = Space /\ Ready' = Ready
  BY <1>3 DEF Space, Ready
<1>7. Fits(readSide)' /\ Room'
  BY <1>2, <1>3, <1>4, <1>6 DEF Window, Room, Fits
<1>8. Blocks'
  BY <1>2, <1>3, <1>4, <1>5 DEF Blocks
<1>9. Held'
  <2>1. ~reader.notifyOnBlock
    BY <1>3 DEF Window, Blocks
  <2> QED
    BY <1>2, <1>3, <1>4, <1>6, <2>1 DEF Window, Held
<1> QED
  BY <1>7, <1>8, <1>9 DEF Window

\* The steps of a receive that leave the window, and those that change it.
LEMMA ReaderSteps ==
  ASSUME Window, UNCHANGED <<ring, sender>>,
         Fits(readSide'),
         reader'.pc = "advance" => Len(reader'.got) <= Ready /\ reader'.kind # "peek",
         Blocks', Held'
  PROVE  Window'
<1>1. Space' = Space /\ Ready' = Ready
  BY DEF Space, Ready
<1> QED
  BY <1>1 DEF Window, Fits, Room

LEMMA StartPollWindow == Window /\ StartPoll => Window'
<1> SUFFICES ASSUME Window, StartPoll PROVE Window'
  OBVIOUS
<1>1. /\ reader'.pc = "check" /\ reader'.target = 1 /\ reader'.notifyOnBlock = FALSE
      /\ readSide' = readSide /\ UNCHANGED <<ring, sender>> /\ reader.pc = "idle"
  BY DEF StartPoll, NoRecv
<1>2. 1 < readSide.writeNotifyMinWindow
  BY NotifyAssumption, QueueSizeAssumption DEF Window, Fits
<1>3. Ready' = Ready
  BY <1>1 DEF Ready
<1>4. Blocks'
  BY <1>1, <1>2 DEF Blocks
<1>5. Held'
  BY <1>1, <1>3 DEF Window, Blocks, Held
<1> QED
  BY <1>1, <1>4, <1>5, ReaderSteps DEF Window

\* What CheckData leaves of the call.
LEMMA CheckDataResult ==
  ASSUME RingOK, reader \in Reader, CheckData
  PROVE  IF Ready < reader.target /\ reader.pc = "check"
         THEN /\ reader'.pc = "block" /\ reader'.kind = reader.kind
              /\ reader'.target = reader.target
              /\ reader'.notifyOnBlock = reader.notifyOnBlock
         ELSE reader'.pc \in {"idle", "copy"} /\ reader'.notifyOnBlock = FALSE
<1> DEFINE b == [reader EXCEPT !.pc = "block"]
           c == [reader EXCEPT !.pc = "copy", !.target = 0, !.notifyOnBlock = FALSE]
<1>1. reader' =
        CASE Ready < reader.target /\ reader.pc = "check" -> b
          [] Ready < reader.target /\ reader.pc = "try" -> NoRecv
          [] Ready >= reader.target /\ reader.kind = "poll" -> NoRecv
          [] OTHER -> c
  BY DEF CheckData
<1>2. /\ b.pc = "block" /\ b.kind = reader.kind /\ b.target = reader.target
      /\ b.notifyOnBlock = reader.notifyOnBlock
  BY DEF Reader
<1>3. c.pc = "copy" /\ c.notifyOnBlock = FALSE
  <2> DEFINE t == [reader EXCEPT !.pc = "copy"]
             u == [t EXCEPT !.target = 0]
  <2>1. t \in Reader /\ t.pc = "copy"
    BY DEF Reader, ReaderPc
  <2> HIDE DEF t
  <2>2. u \in Reader /\ u.pc = "copy"
    BY <2>1, QueueSizeAssumption DEF Reader
  <2>3. c = [u EXCEPT !.notifyOnBlock = FALSE]
    BY Zenon DEF t
  <2> HIDE DEF c, u
  <2> QED
    BY <2>2, <2>3 DEF Reader
<1>4. NoRecv.pc = "idle" /\ NoRecv.notifyOnBlock = FALSE
  BY DEF NoRecv
<1> HIDE DEF b, c
<1>5. CASE Ready < reader.target /\ reader.pc = "check"
  <2>1. ~(Ready >= reader.target)
    BY <1>5, SpaceAndReady, QueueSizeAssumption DEF Reader
  <2>2. reader.pc # "try"
    BY <1>5
  <2>3. reader' = b
    BY <1>1, <1>5, <2>1, <2>2
  <2> QED
    BY <1>2, <1>5, <2>3
<1>6. CASE ~(Ready < reader.target /\ reader.pc = "check")
  <2>1. reader' = NoRecv \/ reader' = c
    BY <1>1, <1>6
  <2> QED
    BY <1>3, <1>4, <1>6, <2>1
<1> QED
  BY <1>5, <1>6

\* Over a waiting sender there is a window of bytes, more than the receive
\* wants, so that it does not block unless it raised the window.
LEMMA CheckDataWindow == CallsOK /\ Window /\ CheckData => Window'
<1> SUFFICES ASSUME CallsOK, Window, CheckData PROVE Window'
  OBVIOUS
<1>1. /\ reader \in Reader /\ readSide' = readSide /\ UNCHANGED <<ring, sender>>
      /\ reader.pc \in {"try", "check"}
  BY DEF CheckData, CallsOK, ReaderOK
<1>2. Ready' = Ready /\ Ready \in Int
  BY <1>1, SpaceAndReady DEF Ready, CallsOK
<1>3. readSide.writeNotifyMinWindow \in Int /\ readSide.writeNotifyWindow \in Int
      /\ readSide.writeNotifyMinWindow <= readSide.writeNotifyWindow
  BY NotifyAssumption, QueueSizeAssumption DEF Window, Fits
<1>4. CASE Ready < reader.target /\ reader.pc = "check"
  <2>1. /\ reader'.pc = "block" /\ reader'.target = reader.target
        /\ reader'.notifyOnBlock = reader.notifyOnBlock /\ reader'.kind = reader.kind
    BY <1>1, <1>4, CheckDataResult DEF CallsOK
  <2>2. readSide.peerWaitingWrite => reader.notifyOnBlock
    <3>1. reader.target < readSide.writeNotifyMinWindow /\ reader.target \in Int
      BY <1>1, <1>4, QueueSizeAssumption DEF Window, Blocks, Reader
    <3> QED
      BY <1>2, <1>3, <1>4, <3>1 DEF Window, Held
  <2>3. Blocks' /\ Held'
    BY <1>1, <1>2, <1>4, <2>1, <2>2 DEF Window, Blocks, Held
  <2> QED
    BY <1>1, <2>1, <2>3, ReaderSteps DEF Window
<1>5. CASE ~(Ready < reader.target /\ reader.pc = "check")
  <2>1. reader'.pc \in {"idle", "copy"} /\ reader'.notifyOnBlock = FALSE
    BY <1>1, <1>5, CheckDataResult DEF CallsOK
  <2>2. Blocks'
    BY <1>1, <2>1 DEF Blocks
  <2>3. Held'
    <3>1. reader.notifyOnBlock => Ready >= reader.target /\ readSide.writeNotifyWindow = reader.target + 1
      <4>1. reader.target \in Int
        BY <1>1, QueueSizeAssumption DEF Reader
      <4> QED
        BY <1>1, <1>2, <1>5, <4>1 DEF Window, Blocks
    <3>2. reader.target \in Int
      BY <1>1, QueueSizeAssumption DEF Reader
    <3> QED
      BY <1>1, <1>2, <1>3, <2>1, <3>1, <3>2 DEF Window, Held
  <2> QED
    BY <1>1, <2>1, <2>2, <2>3, ReaderSteps DEF Window
<1> QED
  BY <1>4, <1>5

\* Before it blocks, a receive makes the window larger or finds that nobody
\* waits to whom that would matter.
LEMMA RecvPreBlockWindow == Inv /\ CallsOK /\ Window /\ RecvPreBlock => Window'
<1> SUFFICES ASSUME Inv, CallsOK, Window, RecvPreBlock PROVE Window'
  OBVIOUS
<1> DEFINE wide == WidenWindow(readSide)
           side == IF ~readSide.sentWaitingRead THEN [wide EXCEPT !.sentWaitingRead = TRUE]
                   ELSE readSide
           n == NotifyWriter(side).side
<1>1. /\ readSide \in ReadSide /\ reader \in Reader /\ RingOK
      /\ reader.pc = "block" /\ UNCHANGED <<ring, sender>>
      /\ reader' = [reader EXCEPT !.pc = "asleep", !.notifyOnBlock = FALSE]
      /\ readSide' = IF reader.notifyOnBlock THEN n ELSE side
  BY DEF RecvPreBlock, Inv, SidesOK, CallsOK, ReaderOK
<1>2. /\ side \in ReadSide /\ Fits(side)
      /\ side.writeNotifyMinWindow = readSide.writeNotifyMinWindow
      /\ side.peerWaitingWrite = readSide.peerWaitingWrite
  <2>1. /\ wide \in ReadSide /\ Fits(wide)
        /\ wide.writeNotifyMinWindow = readSide.writeNotifyMinWindow
        /\ wide.peerWaitingWrite = readSide.peerWaitingWrite
    BY <1>1, WidenWindowFlags, WidenFits DEF Window
  <2> HIDE DEF wide
  <2>2. CASE readSide.sentWaitingRead
    BY <1>1, <2>2 DEF Window
  <2>3. CASE ~readSide.sentWaitingRead
    BY <2>1, <2>3 DEF ReadSide, Fits
  <2> QED
    BY <2>2, <2>3
<1> HIDE DEF side
<1>3. /\ Fits(n)
      /\ n.writeNotifyMinWindow = side.writeNotifyMinWindow
      /\ n.peerWaitingWrite => Ready + 1 >= n.writeNotifyWindow
  BY <1>1, <1>2, NotifyWriterHolds
<1> HIDE DEF n
<1>4. /\ reader'.pc = "asleep" /\ reader'.target = reader.target
      /\ reader'.notifyOnBlock = FALSE
  BY <1>1 DEF Reader
<1>5. Ready' = Ready
  BY <1>1 DEF Ready
<1>6. /\ Fits(readSide')
      /\ readSide'.writeNotifyMinWindow = readSide.writeNotifyMinWindow
  BY <1>1, <1>2, <1>3
<1>7. Blocks'
  BY <1>1, <1>4, <1>6 DEF Window, Blocks
<1>8. Held'
  <2>1. CASE reader.notifyOnBlock
    BY <1>1, <1>3, <1>5, <2>1 DEF Held
  <2>2. CASE ~reader.notifyOnBlock
    <3>1. ~readSide.peerWaitingWrite
      BY <1>1, <2>2 DEF Window, Blocks
    <3> QED
      BY <1>1, <1>2, <2>2, <3>1 DEF Held
  <2> QED
    BY <2>1, <2>2
<1> QED
  BY <1>1, <1>4, <1>6, <1>7, <1>8, ReaderSteps

LEMMA ReaderGivesUpWindow == Window /\ ReaderGivesUp => Window'
<1> SUFFICES ASSUME Window, ReaderGivesUp PROVE Window'
  OBVIOUS
<1>1. /\ reader'.pc = "idle" /\ reader'.notifyOnBlock = FALSE
      /\ readSide' = readSide /\ UNCHANGED <<ring, sender>> /\ reader.pc = "asleep"
  BY DEF ReaderGivesUp, NoRecv
<1>2. Ready' = Ready
  BY <1>1 DEF Ready
<1>3. Blocks' /\ Held'
  BY <1>1, <1>2 DEF Window, Blocks, Held
<1> QED
  BY <1>1, <1>3, ReaderSteps DEF Window

LEMMA DequeueWindow == CallsOK /\ Window /\ Dequeue => Window'
<1> SUFFICES ASSUME CallsOK, Window, Dequeue PROVE Window'
  OBVIOUS
<1> DEFINE n == IF Ready < reader.len THEN Ready ELSE reader.len
           bytes == MemcpyFromQueue(ring.buffer, ring.head, n)
           pc == IF reader.kind = "peek" THEN "post" ELSE "advance"
<1>1. /\ reader \in Reader /\ ring \in Ring
      /\ reader' = [reader EXCEPT !.pc = pc, !.len = 0, !.got = bytes]
      /\ reader.pc = "copy" /\ readSide' = readSide /\ UNCHANGED <<ring, sender>>
  BY DEF Dequeue, CallsOK, RingOK, ReaderOK
<1>2. Ready \in 0..QueueSize - 1
  BY <1>1, SpaceAndReady DEF RingOK
<1>3. n \in Nat /\ n <= Ready
  BY <1>1, <1>2 DEF Reader
<1> HIDE DEF n
<1>4. Len(bytes) = n
  BY <1>1, <1>3, CopyOut DEF Ring
<1> HIDE DEF bytes
<1>5. pc \in {"post", "advance"} /\ (pc = "advance" <=> reader.kind # "peek")
  OBVIOUS
<1> HIDE DEF pc
<1>6. /\ reader'.pc = pc /\ reader'.got = bytes /\ reader'.kind = reader.kind
      /\ reader'.notifyOnBlock = reader.notifyOnBlock
  BY <1>1 DEF Reader
<1>7. Ready' = Ready
  BY <1>1 DEF Ready
<1>8. ~reader.notifyOnBlock
  BY <1>1 DEF Window, Blocks
<1>9. Blocks' /\ Held'
  BY <1>1, <1>5, <1>6, <1>7, <1>8 DEF Window, Blocks, Held
<1> QED
  BY <1>1, <1>3, <1>4, <1>5, <1>6, <1>9, ReaderSteps DEF Window

\* The bytes that were taken are free; the writer will be looked for.
LEMMA AdvanceWindow == CallsOK /\ Window /\ Advance => Window'
<1> SUFFICES ASSUME CallsOK, Window, Advance PROVE Window'
  OBVIOUS
<1>1. /\ ring \in Ring /\ reader \in Reader /\ sender \in Sender
      /\ reader.pc = "advance" /\ reader.kind # "peek" /\ Len(reader.got) <= Ready
      /\ ring' = [ring EXCEPT !.head = AddPointer(@, Len(reader.got))]
      /\ reader' = [reader EXCEPT !.pc = "post", !.got = <<>>]
      /\ sender' = sender /\ readSide' = readSide
  BY DEF Advance, CallsOK, RingOK, ReaderOK, SenderOK, Window, Room
<1>2. Len(reader.got) \in Nat
  BY <1>1 DEF Reader
<1>3. Len(reader.got) \in 0..BufReady(ring.tail, ring.head)
  <2>1. Ready \in Int
    BY <1>1, SpaceAndReady DEF RingOK
  <2> QED
    BY <1>1, <1>2, <2>1 DEF Ready
<1>4. ring'.tail = ring.tail /\ ring'.head = AddPointer(ring.head, Len(reader.got))
  BY <1>1 DEF Ring
<1>5. Space' = Space + Len(reader.got)
  BY <1>1, <1>3, <1>4, HeadMoves DEF Space, Ring
<1>6. reader'.pc = "post" /\ reader'.kind = reader.kind /\ reader'.notifyOnBlock = reader.notifyOnBlock
  BY <1>1 DEF Reader
<1>7. Room'
  <2>1. Space \in Int /\ sender.count \in Int /\ sender.count <= Space
    BY <1>1, SpaceAndReady, QueueSizeAssumption DEF RingOK, Sender, Window, Room
  <2> QED
    BY <1>1, <1>2, <1>5, <1>6, <2>1 DEF Room
<1>8. ~reader.notifyOnBlock
  BY <1>1 DEF Window, Blocks
<1> QED
  BY <1>1, <1>6, <1>7, <1>8 DEF Window, Fits, Blocks, Held

LEMMA RecvPostDequeueWindow == Inv /\ CallsOK /\ Window /\ RecvPostDequeue => Window'
<1> SUFFICES ASSUME Inv, CallsOK, Window, RecvPostDequeue PROVE Window'
  OBVIOUS
<1> DEFINE n == NotifyWriter(readSide).side
<1>1. /\ readSide \in ReadSide /\ RingOK /\ Fits(readSide)
      /\ reader.pc = "post" /\ reader'.pc = "idle" /\ reader'.notifyOnBlock = FALSE
      /\ UNCHANGED <<ring, sender>>
      /\ readSide' = IF reader.kind = "peek" THEN readSide ELSE n
  BY DEF RecvPostDequeue, NoRecv, Inv, SidesOK, CallsOK, Window
<1>2. /\ Fits(n)
      /\ n.peerWaitingWrite => Ready + 1 >= n.writeNotifyWindow
  BY <1>1, NotifyWriterHolds
<1> HIDE DEF n
<1>3. Ready' = Ready /\ ~reader.notifyOnBlock
  BY <1>1 DEF Ready, Window, Blocks
<1>4. Blocks' /\ Held'
  BY <1>1, <1>2, <1>3 DEF Window, Blocks, Held
<1>5. Fits(readSide')
  BY <1>1, <1>2
<1> QED
  BY <1>1, <1>4, <1>5, ReaderSteps

LEMMA HandleWroteWindow == Inv /\ CallsOK /\ Window /\ HandleWrote => Window'
<1> SUFFICES ASSUME Inv, CallsOK, Window, HandleWrote PROVE Window'
  OBVIOUS
<1>1. /\ readSide \in ReadSide /\ reader \in Reader
      /\ reader.pc \in {"idle", "asleep"} /\ UNCHANGED <<ring, sender>>
      /\ readSide' = [readSide EXCEPT !.sentWaitingRead = FALSE]
      /\ reader' = IF reader.pc = "asleep" THEN [reader EXCEPT !.pc = "check"] ELSE reader
  BY DEF HandleWrote, ReaderUnlocked, Inv, SidesOK, CallsOK, ReaderOK
<1>2. /\ readSide'.writeNotifyMinWindow = readSide.writeNotifyMinWindow
      /\ readSide'.writeNotifyWindow = readSide.writeNotifyWindow
      /\ readSide'.peerWaitingWrite = readSide.peerWaitingWrite
  BY <1>1 DEF ReadSide
<1>3. /\ reader'.pc \in {"idle", "check"} /\ (reader'.pc = "check" => reader.pc = "asleep")
      /\ reader'.target = reader.target /\ reader'.notifyOnBlock = reader.notifyOnBlock
  BY <1>1 DEF Reader
<1>4. Ready' = Ready /\ ~reader.notifyOnBlock
  BY <1>1 DEF Ready, Window, Blocks
<1>5. Blocks' /\ Held'
  BY <1>1, <1>2, <1>3, <1>4 DEF Window, Blocks, Held
<1>6. Fits(readSide')
  BY <1>2 DEF Window, Fits
<1> QED
  BY <1>1, <1>3, <1>5, <1>6, ReaderSteps

LEMMA HandleWaitingWriteWindow == Inv /\ CallsOK /\ Window /\ HandleWaitingWrite => Window'
<1> SUFFICES ASSUME Inv, CallsOK, Window, HandleWaitingWrite PROVE Window'
  OBVIOUS
<1> DEFINE side == [readSide EXCEPT !.peerWaitingWrite = TRUE]
           n == NotifyWriter(side).side
<1>1. /\ readSide \in ReadSide /\ RingOK /\ Fits(readSide)
      /\ reader.pc \in {"idle", "asleep"} /\ UNCHANGED <<ring, sender, reader>>
      /\ readSide' = n
  BY DEF HandleWaitingWrite, ReaderUnlocked, Inv, SidesOK, CallsOK, Window
<1>2. /\ side \in ReadSide /\ Fits(side)
      /\ side.writeNotifyMinWindow = readSide.writeNotifyMinWindow
  BY <1>1 DEF ReadSide, Fits
<1> HIDE DEF side
<1>3. /\ Fits(n)
      /\ n.writeNotifyMinWindow = side.writeNotifyMinWindow
      /\ n.peerWaitingWrite => Ready + 1 >= n.writeNotifyWindow
  BY <1>1, <1>2, NotifyWriterHolds
<1> HIDE DEF n
<1>4. Ready' = Ready /\ ~reader.notifyOnBlock
  BY <1>1 DEF Ready, Window, Blocks
<1>5. Blocks' /\ Held'
  BY <1>1, <1>2, <1>3, <1>4 DEF Window, Blocks, Held
<1> QED
  BY <1>1, <1>3, <1>5, ReaderSteps DEF Window, Room

-----------------------------------------------------------------------------
LEMMA SenderWindow ==
  ASSUME Inv, CallsOK, Window, SenderGivesUp \/ SenderRuns \/ HandleWaitingRead \/ HandleRead
  PROVE  Window'
<1>1. /\ sender \in Sender /\ sender.count <= Space
      /\ Space \in 0..QueueSize - 1
  BY SpaceAndReady DEF CallsOK, SenderOK, Window, Room
<1>2. CASE Publish
  BY <1>2, PublishWindow
<1>3. CASE Enqueue
  <2> DEFINE n == IF Space < sender.want THEN Space ELSE sender.want
  <2>1. sender' = [sender EXCEPT !.pc = "publish", !.count = n]
    BY <1>3 DEF Enqueue
  <2>2. n <= Space
    BY <1>1 DEF Sender
  <2> HIDE DEF n
  <2>3. sender'.count = n
    BY <1>1, <2>1 DEF Sender
  <2>4. ring'.tail = ring.tail /\ ring'.head = ring.head /\ UNCHANGED <<reader, readSide>>
    BY <1>3 DEF Enqueue, CallsOK, RingOK, Ring
  <2> QED
    BY <2>2, <2>3, <2>4, SenderSteps
<1>4. CASE SenderGivesUp \/ PollOutReady
  <2>1. sender'.count = 0 /\ UNCHANGED <<ring, reader, readSide>>
    BY <1>4 DEF SenderGivesUp, PollOutReady, NoSend
  <2> QED
    BY <1>1, <2>1, SenderSteps
<1>5. CASE CheckSpace \/ SendPreBlock \/ SendPostEnqueue \/ HandleWaitingRead \/ HandleRead
  <2>1. UNCHANGED <<ring, reader, readSide>>
    BY <1>5 DEF CheckSpace, SendPreBlock, SendPostEnqueue, HandleWaitingRead, HandleRead
  <2>2. sender' \in {sender, NoSend} \/ \E pc : sender' = [sender EXCEPT !.pc = pc]
    BY <1>5 DEF CheckSpace, SendPreBlock, SendPostEnqueue, HandleWaitingRead, HandleRead, SenderGoto
  <2>3. sender'.count \in {0, sender.count}
    BY <1>1, <2>2 DEF Sender, NoSend
  <2> QED
    BY <1>1, <2>1, <2>3, SenderSteps
<1> QED
  BY <1>2, <1>3, <1>4, <1>5 DEF SenderRuns

\* Every step keeps the window.
LEMMA NextWindow == Usable /\ Inv /\ CallsOK /\ Window /\ [Next]_vars => Window'
<1> SUFFICES ASSUME Usable, Inv, CallsOK, Window, [Next]_vars PROVE Window'
  OBVIOUS
<1>1. ASSUME NEW n \in 0..MaxSend, StartSend(n) PROVE Window'
  <2>1. sender'.count = 0 /\ UNCHANGED <<ring, reader, readSide>>
    BY <1>1 DEF StartSend
  <2>2. 0 <= Space
    BY SpaceAndReady DEF CallsOK
  <2> QED
    BY <2>1, <2>2, SenderSteps
<1>2. ASSUME NEW kind \in {"recv", "peek"}, NEW target \in 1..QueueSize - 1,
             NEW len \in 1..QueueSize - 1, NEW wait \in BOOLEAN,
             StartRecv(kind, target, len, wait)
      PROVE  Window'
  BY <1>2, StartRecvWindow
<1>3. CASE SenderGivesUp \/ SenderRuns \/ HandleWaitingRead \/ HandleRead
  BY <1>3, SenderWindow
<1>4. CASE StartPoll \/ ReaderGivesUp \/ ReaderRuns
  BY <1>4, StartPollWindow, ReaderGivesUpWindow, CheckDataWindow, RecvPreBlockWindow,
     DequeueWindow, AdvanceWindow, RecvPostDequeueWindow DEF ReaderRuns
<1>5. CASE HandleWrote \/ HandleWaitingWrite
  BY <1>5, HandleWroteWindow, HandleWaitingWriteWindow
<1>6. CASE UNCHANGED vars
  BY <1>6 DEF vars, Window, Fits, Room, Blocks, Held, Space, Ready
<1> QED
  BY <1>1, <1>2, <1>3, <1>4, <1>5, <1>6 DEF Next

\* A sender that waits is held up by the window alone: the window's bytes are
\* there to be read (VSockVmciNotifyWaitingWrite and the receives that raise
\* the window, VSockVmciNotifyPktRecvInit), for queues of a page and more and
\* receives of any size, peeks among them.
THEOREM WindowHolds == Usable => (Spec => []HeldUpByWindow)
<1> SUFFICES ASSUME Usable PROVE Spec => []HeldUpByWindow
  OBVIOUS
<1>1. Init => Window
  BY InitWindow
<1>2. Inv /\ CallsOK /\ Window /\ [Next]_vars => Window'
  BY NextWindow
<1>3. Window => HeldUpByWindow
  BY DEF Window, Held, HeldUpByWindow, ReaderUnlocked
<1> QED
  BY <1>1, <1>2, <1>3, CallsHold, PTL DEF Spec

-----------------------------------------------------------------------------
(***************************************************************************)
(* Proofs about the bytes: the ring implements a stream (ByteStream).      *)
(* Either end copies in one step and moves its offset in a later one, and  *)
(* the other end may do either in between, so the invariant says what an   *)
(* end in the midst of a copy may still rely on (Copying).                 *)
(***************************************************************************)

\* The offset of the k-th byte from p on.
Place(p, k) == (p + k - 1) % QueueSize

\* An offset wraps around once at most.
LEMMA WrapsOnce ==
  \A a \in 0..2 * QueueSize - 1 :
    a % QueueSize = IF a < QueueSize THEN a ELSE a - QueueSize
<1> SUFFICES ASSUME NEW a \in 0..2 * QueueSize - 1
             PROVE  a % QueueSize = IF a < QueueSize THEN a ELSE a - QueueSize
  OBVIOUS
<1>1. QueueSize \in Nat \ {0}
  BY QueueSizeAssumption
<1>2. \A x \in 0..QueueSize - 1 : x % QueueSize = x /\ (x + QueueSize) % QueueSize = x
  BY <1>1, Wrapped
<1>3. CASE a < QueueSize
  BY <1>1, <1>2, <1>3
<1>4. CASE a >= QueueSize
  <2>1. a - QueueSize \in 0..QueueSize - 1 /\ (a - QueueSize) + QueueSize = a
    BY <1>1, <1>4
  <2> QED
    BY <1>1, <1>2, <1>4, <2>1
<1> QED
  BY <1>1, <1>3, <1>4

LEMMA PlaceIs ==
  \A p \in Offset, k \in 1..QueueSize :
    /\ Place(p, k) = IF p + k - 1 < QueueSize THEN p + k - 1 ELSE p + k - 1 - QueueSize
    /\ Place(p, k) \in Offset
<1> SUFFICES ASSUME NEW p \in Offset, NEW k \in 1..QueueSize
             PROVE  /\ Place(p, k) = IF p + k - 1 < QueueSize THEN p + k - 1
                                     ELSE p + k - 1 - QueueSize
                    /\ Place(p, k) \in Offset
  OBVIOUS
<1>1. p + k - 1 \in 0..2 * QueueSize - 1
  BY QueueSizeAssumption DEF Offset
<1>2. Place(p, k) = IF p + k - 1 < QueueSize THEN p + k - 1 ELSE p + k - 1 - QueueSize
  BY <1>1, WrapsOnce, QueueSizeAssumption DEF Place, Offset
<1> QED
  BY <1>2, QueueSizeAssumption DEF Offset

\* Bytes that are copied in are at their places, and what is ready stays.
LEMMA CopiedIn ==
  ASSUME NEW buffer, NEW tail \in Offset, NEW bytes \in Seq(Byte),
         Len(bytes) <= QueueSize, NEW k \in 1..Len(bytes)
  PROVE  MemcpyToQueue(buffer, tail, bytes)[Place(tail, k)] = bytes[k]
<1>0. Len(bytes) \in Nat /\ k \in 1..QueueSize
  BY QueueSizeAssumption
<1> DEFINE i == Place(tail, k)
<1>1. /\ i = IF tail + k - 1 < QueueSize THEN tail + k - 1 ELSE tail + k - 1 - QueueSize
      /\ i \in Offset
  BY <1>0, PlaceIs
<1> HIDE DEF i
<1>2. PICK a \in 0..2 * QueueSize - 1 : a = i + QueueSize - tail
  BY <1>1, QueueSizeAssumption DEF Offset
<1>3. (i + QueueSize - tail) % QueueSize = k - 1
  <2>1. a % QueueSize = IF a < QueueSize THEN a ELSE a - QueueSize
    BY WrapsOnce
  <2>2. (IF a < QueueSize THEN a ELSE a - QueueSize) = k - 1
    BY <1>0, <1>1, <1>2, QueueSizeAssumption DEF Offset
  <2> QED
    BY <1>2, <2>1, <2>2
<1>4. MemcpyToQueue(buffer, tail, bytes)[i]
        = IF k - 1 < Len(bytes) THEN bytes[k - 1 + 1] ELSE buffer[i]
  BY <1>1, <1>3 DEF MemcpyToQueue
<1>5. k - 1 < Len(bytes) /\ k - 1 + 1 = k
  BY <1>0
<1> QED
  BY <1>4, <1>5 DEF i

LEMMA ReadyStays ==
  ASSUME NEW buffer, NEW tail \in Offset, NEW head \in Offset, NEW bytes \in Seq(Byte),
         Len(bytes) <= FreeSpace(tail, head), NEW k \in 1..BufReady(tail, head)
  PROVE  MemcpyToQueue(buffer, tail, bytes)[Place(head, k)] = buffer[Place(head, k)]
<1>0. Len(bytes) \in Nat /\ k \in 1..QueueSize
  BY FreeAndReady, QueueSizeAssumption
<1> DEFINE i == Place(head, k)
<1>1. /\ i = IF head + k - 1 < QueueSize THEN head + k - 1 ELSE head + k - 1 - QueueSize
      /\ i \in Offset
  BY <1>0, PlaceIs
<1> HIDE DEF i
<1>2. PICK a \in 0..2 * QueueSize - 1 : a = i + QueueSize - tail
  BY <1>1, QueueSizeAssumption DEF Offset
<1>3. (i + QueueSize - tail) % QueueSize
        = IF i < tail THEN i + QueueSize - tail ELSE i - tail
  <2>1. a % QueueSize = IF a < QueueSize THEN a ELSE a - QueueSize
    BY WrapsOnce
  <2>2. (IF a < QueueSize THEN a ELSE a - QueueSize)
          = IF i < tail THEN i + QueueSize - tail ELSE i - tail
    BY <1>1, <1>2, QueueSizeAssumption DEF Offset
  <2> QED
    BY <1>2, <2>1, <2>2
<1>4. ~((i + QueueSize - tail) % QueueSize < Len(bytes))
  BY <1>0, <1>1, <1>3, QueueSizeAssumption DEF Offset, FreeSpace, BufReady
<1>5. MemcpyToQueue(buffer, tail, bytes)[i]
        = IF (i + QueueSize - tail) % QueueSize < Len(bytes)
          THEN bytes[((i + QueueSize - tail) % QueueSize) + 1] ELSE buffer[i]
  BY <1>1 DEF MemcpyToQueue
<1> QED
  BY <1>4, <1>5 DEF i

\* What is behind the ready bytes is at the tail, and what is behind the bytes
\* that are taken is at the new head.
LEMMA BehindReady ==
  ASSUME NEW tail \in Offset, NEW head \in Offset,
         NEW k \in 1..FreeSpace(tail, head)
  PROVE  Place(head, BufReady(tail, head) + k) = Place(tail, k)
<1>1. /\ k \in 1..QueueSize /\ BufReady(tail, head) + k \in 1..QueueSize
  BY FreeAndReady, QueueSizeAssumption
<1> DEFINE m == BufReady(tail, head) + k
<1>2. /\ Place(head, m) = IF head + m - 1 < QueueSize THEN head + m - 1
                          ELSE head + m - 1 - QueueSize
      /\ Place(tail, k) = IF tail + k - 1 < QueueSize THEN tail + k - 1
                          ELSE tail + k - 1 - QueueSize
  BY <1>1, PlaceIs
<1>3. m = IF tail >= head THEN tail - head + k ELSE tail - head + QueueSize + k
  BY QueueSizeAssumption DEF Offset, FreeSpace, BufReady
<1>4. k \in Nat /\ k <= IF tail >= head THEN QueueSize - (tail - head) - 1 ELSE head - tail - 1
  BY QueueSizeAssumption DEF Offset, FreeSpace
<1> HIDE DEF m
<1>5. CASE tail >= head
  BY <1>2, <1>3, <1>4, <1>5, QueueSizeAssumption DEF Offset, m
<1>6. CASE tail < head
  BY <1>2, <1>3, <1>4, <1>6, QueueSizeAssumption DEF Offset, m
<1> QED
  BY <1>5, <1>6 DEF Offset

LEMMA BehindTaken ==
  ASSUME NEW head \in Offset, NEW n \in 0..QueueSize - 1, NEW k \in 1..QueueSize - 1 - n
  PROVE  Place(AddPointer(head, n), k) = Place(head, n + k)
<1>1. k \in 1..QueueSize /\ n + k \in 1..QueueSize
  BY QueueSizeAssumption
<1>2. AddPointer(head, n) \in Offset
  BY AddPointerOffset
<1> QED
  BY <1>1, <1>2, PlaceIs, QueueSizeAssumption DEF Offset, AddPointer

\* The bytes that are copied out, one by one.
LEMMA CopiedOut ==
  ASSUME NEW buffer \in [Offset -> Byte], NEW head \in Offset, NEW n \in Nat
  PROVE  /\ MemcpyFromQueue(buffer, head, n) \in Seq(Byte)
         /\ Len(MemcpyFromQueue(buffer, head, n)) = n
         /\ \A k \in 1..n : MemcpyFromQueue(buffer, head, n)[k] = buffer[Place(head, k)]
<1>1. \A k \in 1..n : MemcpyFromQueue(buffer, head, n)[k] = buffer[Place(head, k)]
  BY DEF MemcpyFromQueue, Place
<1> QED
  BY <1>1, CopyOut

-----------------------------------------------------------------------------
(* What either end has copied while the other one moves its offset *)

\* The first n bytes from the tail on are the next ones that are sent.
Written(buffer, tail, n, first) ==
  \A k \in 1..n : buffer[Place(tail, k)] = (first + k - 1) % Numbers

\* The bytes that were taken are the first ones from the head on.
Taken(buffer, head, bytes) ==
  \A k \in 1..Len(bytes) : bytes[k] = buffer[Place(head, k)]

Copying ==
  /\ sender.count <= Space
  /\ sender.pc = "publish" => Written(ring.buffer, ring.tail, sender.count, sent)
  /\ reader.pc = "advance" =>
       Len(reader.got) <= Ready /\ Taken(ring.buffer, ring.head, reader.got)

\* The steps other than the four that copy or move an offset.
Aside ==
  /\ UNCHANGED <<ring, sent>>
  /\ \/ sender' = sender
     \/ sender'.pc # "publish" /\ sender'.count \in {0, sender.count}
  /\ \/ reader' = reader
     \/ reader'.pc # "advance" /\ reader'.got \in {<<>>, reader.got}

LEMMA StepsAside ==
  CallsOK /\ [Next]_vars => Enqueue \/ Publish \/ Dequeue \/ Advance \/ Aside
<1> SUFFICES ASSUME CallsOK, [Next]_vars PROVE Enqueue \/ Publish \/ Dequeue \/ Advance \/ Aside
  OBVIOUS
<1> USE DEF Aside
<1>0. sender \in Sender /\ reader \in Reader
  BY DEF CallsOK, SenderOK, ReaderOK
<1>1. ASSUME NEW n \in 0..MaxSend, StartSend(n) PROVE Aside
  BY <1>1 DEF StartSend
<1>2. ASSUME NEW kind \in {"recv", "peek"}, NEW target \in 1..QueueSize - 1,
             NEW len \in 1..QueueSize - 1, NEW wait \in BOOLEAN,
             StartRecv(kind, target, len, wait)
      PROVE  Aside
  BY <1>2 DEF StartRecv
<1>3. CASE StartPoll \/ ReaderGivesUp \/ RecvPostDequeue
  <2>1. NoRecv.pc = "idle" /\ NoRecv.got = <<>>
    BY DEF NoRecv
  <2>2. CASE StartPoll
    BY <2>2 DEF StartPoll, NoRecv
  <2>3. CASE ReaderGivesUp \/ RecvPostDequeue
    BY <2>1, <2>3 DEF ReaderGivesUp, RecvPostDequeue
  <2> QED
    BY <1>3, <2>2, <2>3
<1>4. CASE SenderGivesUp \/ CheckSpace \/ SendPreBlock \/ PollOutReady \/ SendPostEnqueue
  BY <1>0, <1>4 DEF SenderGivesUp, CheckSpace, SendPreBlock, PollOutReady, SendPostEnqueue,
                    SenderGoto, NoSend, Sender
<1>5. CASE CheckData
  <2> DEFINE r == [reader EXCEPT !.pc = "copy", !.target = 0, !.notifyOnBlock = FALSE]
  <2>1. r.pc = "copy" /\ r.got = reader.got
    BY <1>0 DEF Reader
  <2>2. NoRecv.pc = "idle" /\ NoRecv.got = <<>>
    BY DEF NoRecv
  <2>3. reader' \in {[reader EXCEPT !.pc = "block"], NoRecv, r}
    BY <1>5 DEF CheckData
  <2> HIDE DEF r
  <2>4. reader'.pc # "advance" /\ reader'.got \in {<<>>, reader.got}
    BY <1>0, <2>1, <2>2, <2>3 DEF Reader
  <2> QED
    BY <1>5, <2>4 DEF CheckData
<1>6. CASE RecvPreBlock
  BY <1>0, <1>6 DEF RecvPreBlock, Reader
<1>7. CASE HandleWaitingRead \/ HandleRead
  BY <1>0, <1>7 DEF HandleWaitingRead, HandleRead, Sender
<1>8. CASE HandleWrote \/ HandleWaitingWrite
  BY <1>0, <1>8 DEF HandleWrote, HandleWaitingWrite, Reader
<1>9. CASE UNCHANGED vars
  BY <1>9 DEF vars
<1> QED
  BY <1>1, <1>2, <1>3, <1>4, <1>5, <1>6, <1>7, <1>8, <1>9
  DEF Next, SenderRuns, ReaderRuns

LEMMA AsideCopying == CallsOK /\ Copying /\ Aside => Copying'
<1> SUFFICES ASSUME CallsOK, Copying, Aside PROVE Copying'
  OBVIOUS
<1>1. Space' = Space /\ Ready' = Ready /\ ring' = ring /\ sent' = sent
  BY DEF Aside, Space, Ready
<1>2. 0 <= Space
  BY SpaceAndReady, QueueSizeAssumption DEF CallsOK
<1>3. sender'.count <= Space
  BY <1>2 DEF Copying, Aside
<1>4. sender'.pc = "publish" => sender' = sender
  BY DEF Aside
<1>5. reader'.pc = "advance" => reader' = reader
  BY DEF Aside
<1> QED
  BY <1>1, <1>3, <1>4, <1>5 DEF Copying

\* Bytes are copied to the free part: what the reader copies is not touched.
LEMMA EnqueueCopies ==
  ASSUME CallsOK, Enqueue
  PROVE  /\ ring'.tail = ring.tail /\ ring'.head = ring.head /\ Space' = Space /\ Ready' = Ready
         /\ sender'.count <= Space
         /\ Written(ring'.buffer, ring.tail, sender'.count, sent)
         /\ \A k \in 1..Ready :
              ring'.buffer[Place(ring.head, k)] = ring.buffer[Place(ring.head, k)]
<1> DEFINE n == IF Space < sender.want THEN Space ELSE sender.want
           bytes == [k \in 1..n |-> (sent + k - 1) % Numbers]
<1>1. /\ ring' = [ring EXCEPT !.buffer = MemcpyToQueue(@, ring.tail, bytes)]
      /\ sender' = [sender EXCEPT !.pc = "publish", !.count = n]
  BY DEF Enqueue
<1>2. /\ Space \in 0..QueueSize - 1 /\ sender \in Sender /\ sent \in Byte
      /\ ring \in Ring /\ ring.tail \in Offset /\ ring.head \in Offset
  BY SpaceAndReady DEF CallsOK, SenderOK, RingOK, Ring
<1>3. n \in 0..QueueSize - 1 /\ n <= Space
  BY <1>2, QueueSizeAssumption DEF Sender
<1> HIDE DEF n
<1>4. bytes \in Seq(Byte) /\ Len(bytes) = n /\ \A k \in 1..n : bytes[k] = (sent + k - 1) % Numbers
  BY <1>2, <1>3, NumberedBytes
<1> HIDE DEF bytes
<1>5. /\ ring'.tail = ring.tail /\ ring'.head = ring.head /\ sender'.count = n
      /\ ring'.buffer = MemcpyToQueue(ring.buffer, ring.tail, bytes)
  BY <1>1, <1>2 DEF Ring, Sender
<1>6. Space' = Space /\ Ready' = Ready
  BY <1>5 DEF Space, Ready
<1>7. Written(ring'.buffer, ring.tail, n, sent)
  <2> SUFFICES ASSUME NEW k \in 1..n
               PROVE  ring'.buffer[Place(ring.tail, k)] = (sent + k - 1) % Numbers
    BY DEF Written
  <2>1. Len(bytes) <= QueueSize
    BY <1>3, <1>4, QueueSizeAssumption
  <2>2. MemcpyToQueue(ring.buffer, ring.tail, bytes)[Place(ring.tail, k)] = bytes[k]
    BY <1>2, <1>4, <2>1, CopiedIn
  <2> QED
    BY <1>4, <1>5, <2>2
<1>8. ASSUME NEW k \in 1..Ready
      PROVE  ring'.buffer[Place(ring.head, k)] = ring.buffer[Place(ring.head, k)]
  <2>1. MemcpyToQueue(ring.buffer, ring.tail, bytes)[Place(ring.head, k)]
          = ring.buffer[Place(ring.head, k)]
    BY <1>2, <1>3, <1>4, ReadyStays DEF Space, Ready
  <2> QED
    BY <1>5, <2>1
<1> QED
  BY <1>3, <1>5, <1>6, <1>7, <1>8

LEMMA EnqueueCopying == CallsOK /\ Copying /\ Enqueue => Copying'
<1> SUFFICES ASSUME CallsOK, Copying, Enqueue PROVE Copying'
  OBVIOUS
<1>1. reader' = reader /\ sent' = sent
  BY DEF Enqueue
<1>2. ASSUME reader.pc = "advance"
      PROVE  Len(reader.got) <= Ready /\ Taken(ring'.buffer, ring.head, reader.got)
  <2>1. Len(reader.got) <= Ready /\ Taken(ring.buffer, ring.head, reader.got)
    BY <1>2 DEF Copying
  <2>2. Len(reader.got) \in Nat /\ Ready \in Nat
    BY SpaceAndReady, QueueSizeAssumption DEF CallsOK, ReaderOK, Reader
  <2>3. \A k \in 1..Len(reader.got) : k \in 1..Ready
    BY <2>1, <2>2
  <2> QED
    BY <2>1, <2>3, EnqueueCopies DEF Taken
<1> QED
  BY <1>1, <1>2, EnqueueCopies DEF Copying

\* The tail moves over what was written.
LEMMA PublishMoves ==
  ASSUME CallsOK, Copying, Publish
  PROVE  /\ ring'.tail = AddPointer(ring.tail, sender.count)
         /\ ring'.head = ring.head /\ ring'.buffer = ring.buffer
         /\ Ready' = Ready + sender.count
         /\ sender'.pc = "post" /\ sender'.count = 0
<1>1. ring \in Ring /\ sender \in Sender
  BY DEF CallsOK, RingOK, SenderOK
<1>2. /\ ring' = [ring EXCEPT !.tail = AddPointer(@, sender.count)]
      /\ sender' = [sender EXCEPT !.pc = "post", !.want = @ - sender.count, !.count = 0]
  BY DEF Publish
<1>3. sender.count \in 0..FreeSpace(ring.tail, ring.head)
  BY <1>1 DEF Copying, Space, Sender
<1>4. /\ ring'.tail = AddPointer(ring.tail, sender.count)
      /\ ring'.head = ring.head /\ ring'.buffer = ring.buffer
  BY <1>1, <1>2 DEF Ring
<1>5. Ready' = Ready + sender.count
  BY <1>1, <1>3, <1>4, TailMoves DEF Ready, Ring
<1> QED
  BY <1>1, <1>2, <1>4, <1>5 DEF Sender

LEMMA PublishCopying == CallsOK /\ Copying /\ Publish => Copying'
<1> SUFFICES ASSUME CallsOK, Copying, Publish PROVE Copying'
  OBVIOUS
<1>1. 0 <= Space'
  <2>1. ring'.tail \in Offset /\ ring'.head \in Offset
    BY PublishCalls DEF CallsOK, RingOK, Ring
  <2> QED
    BY <2>1, FreeAndReady, QueueSizeAssumption DEF Space
<1>2. reader' = reader
  BY DEF Publish
<1>3. Len(reader.got) \in Nat /\ Ready \in Nat /\ sender.count \in Nat
  BY SpaceAndReady, QueueSizeAssumption DEF CallsOK, ReaderOK, Reader, SenderOK, Sender
<1> QED
  BY <1>1, <1>2, <1>3, PublishMoves DEF Copying

LEMMA DequeueCopies ==
  ASSUME CallsOK, Dequeue
  PROVE  \E n \in 0..Ready : reader'.got = MemcpyFromQueue(ring.buffer, ring.head, n)
<1> DEFINE n == IF Ready < reader.len THEN Ready ELSE reader.len
<1>1. reader.len \in Nat /\ Ready \in Nat /\ reader \in Reader
  BY SpaceAndReady, QueueSizeAssumption DEF CallsOK, ReaderOK, Reader
<1>2. n \in 0..Ready
  BY <1>1
<1>3. reader' = [reader EXCEPT !.pc = IF reader.kind = "peek" THEN "post" ELSE "advance",
                               !.len = 0, !.got = MemcpyFromQueue(ring.buffer, ring.head, n)]
  BY DEF Dequeue
<1> HIDE DEF n
<1>4. reader'.got = MemcpyFromQueue(ring.buffer, ring.head, n)
  BY <1>1, <1>3 DEF Reader
<1> QED
  BY <1>2, <1>4

LEMMA DequeueCopying == CallsOK /\ Copying /\ Dequeue => Copying'
<1> SUFFICES ASSUME CallsOK, Copying, Dequeue PROVE Copying'
  OBVIOUS
<1>1. ring' = ring /\ sender' = sender /\ sent' = sent /\ Space' = Space /\ Ready' = Ready
  BY DEF Dequeue, Space, Ready
<1>2. PICK n \in 0..Ready : reader'.got = MemcpyFromQueue(ring.buffer, ring.head, n)
  BY DequeueCopies
<1>3. /\ n \in Nat /\ n <= Ready
      /\ ring.buffer \in [Offset -> Byte] /\ ring.head \in Offset
  BY SpaceAndReady, QueueSizeAssumption DEF CallsOK, RingOK, Ring
<1>4. Len(reader'.got) <= Ready /\ Taken(ring.buffer, ring.head, reader'.got)
  BY <1>2, <1>3, CopiedOut DEF Taken
<1> QED
  BY <1>1, <1>4 DEF Copying

\* The head moves over what was taken.
LEMMA AdvanceMoves ==
  ASSUME CallsOK, Copying, Advance
  PROVE  /\ ring'.head = AddPointer(ring.head, Len(reader.got))
         /\ ring'.tail = ring.tail /\ ring'.buffer = ring.buffer
         /\ Len(reader.got) \in 0..Ready
         /\ Space' = Space + Len(reader.got) /\ Ready' = Ready - Len(reader.got)
         /\ reader'.pc = "post" /\ reader'.got = <<>>
<1>1. ring \in Ring /\ reader \in Reader
  BY DEF CallsOK, RingOK, ReaderOK
<1>2. Len(reader.got) \in 0..Ready
  BY <1>1, SpaceAndReady, QueueSizeAssumption DEF Advance, Copying, Reader, CallsOK
<1>3. /\ ring'.head = AddPointer(ring.head, Len(reader.got))
      /\ ring'.tail = ring.tail /\ ring'.buffer = ring.buffer
  BY <1>1 DEF Advance, Ring
<1>4. Space' = Space + Len(reader.got)
  BY <1>1, <1>2, <1>3, HeadMoves DEF Space, Ready, Ring
<1>5. Space + Ready = QueueSize - 1 /\ Space' + Ready' = QueueSize - 1
      /\ Space \in Int /\ Ready \in Int /\ Space' \in Int /\ Ready' \in Int
  <2>1. ring'.tail \in Offset /\ ring'.head \in Offset
    BY AdvanceCalls DEF CallsOK, RingOK, Ring
  <2>2. ring.tail \in Offset /\ ring.head \in Offset
    BY <1>1 DEF Ring
  <2> QED
    BY <2>1, <2>2, FreeAndReady, QueueSizeAssumption DEF Space, Ready
<1>6. Ready' = Ready - Len(reader.got)
  BY <1>2, <1>4, <1>5, QueueSizeAssumption
<1>7. reader'.pc = "post" /\ reader'.got = <<>>
  BY <1>1 DEF Advance, Reader
<1> QED
  BY <1>2, <1>3, <1>4, <1>6, <1>7

LEMMA AdvanceCopying == CallsOK /\ Copying /\ Advance => Copying'
<1> SUFFICES ASSUME CallsOK, Copying, Advance PROVE Copying'
  OBVIOUS
<1>1. sender' = sender /\ sent' = sent
  BY DEF Advance
<1>2. sender.count <= Space'
  <2>1. sender.count \in Nat /\ Space \in Nat /\ Ready \in Nat
    BY SpaceAndReady, QueueSizeAssumption DEF CallsOK, SenderOK, Sender
  <2> QED
    BY <2>1, AdvanceMoves DEF Copying
<1> QED
  BY <1>1, <1>2, AdvanceMoves DEF Copying

LEMMA CopyingHolds == Spec => [](Inv /\ CallsOK /\ Copying)
<1>1. Init => Copying
  <2> SUFFICES ASSUME Init PROVE Copying
    OBVIOUS
  <2>1. 0 <= Space
    BY InitCalls, SpaceAndReady, QueueSizeAssumption DEF CallsOK
  <2> QED
    BY <2>1 DEF Init, NoSend, NoRecv, Copying
<1>2. Inv /\ CallsOK /\ Copying /\ [Next]_vars => (Inv /\ CallsOK /\ Copying)'
  BY NextInv, NextCalls, StepsAside, AsideCopying, EnqueueCopying, PublishCopying,
     DequeueCopying, AdvanceCopying
<1> QED
  BY <1>1, <1>2, InitInv, InitCalls, PTL DEF Spec

-----------------------------------------------------------------------------
(* The stream *)

\* The bytes under way.
Contents == MemcpyFromQueue(ring.buffer, ring.head, Ready)

LEMMA ContentsAre ==
  ASSUME CallsOK
  PROVE  /\ Contents \in Seq(Byte) /\ Len(Contents) = Ready
         /\ \A k \in 1..Ready : Contents[k] = ring.buffer[Place(ring.head, k)]
<1>1. ring.buffer \in [Offset -> Byte] /\ ring.head \in Offset /\ Ready \in Nat
  BY SpaceAndReady, QueueSizeAssumption DEF CallsOK, RingOK, Ring
<1> QED
  BY <1>1, CopiedOut DEF Contents

LEMMA InitStream == Init => Stream!Init
<1> SUFFICES ASSUME Init PROVE Stream!Init
  OBVIOUS
<1>1. CallsOK
  BY InitCalls
<1>2. Ready = 0
  BY QueueSizeAssumption DEF Init, Ready, BufReady, FreeSpace
<1>3. Contents = <<>>
  BY <1>1, <1>2, ContentsAre
<1> QED
  BY <1>3 DEF Init, NoRecv, Contents, Stream!Init

LEMMA AsideStream == CallsOK /\ Aside => [Stream!Next]_(Stream!vars)
<1> SUFFICES ASSUME Aside PROVE Stream!Forget \/ UNCHANGED Stream!vars
  BY DEF Stream!Next
<1>1. Contents' = Contents /\ sent' = sent
  BY DEF Aside, Contents, Ready
<1>2. reader'.got \in {<<>>, reader.got}
  BY DEF Aside
<1> QED
  BY <1>1, <1>2 DEF Contents, Stream!Forget, Stream!vars

\* Copying to the free part changes nothing that is under way.
LEMMA EnqueueStream == CallsOK /\ Enqueue => [Stream!Next]_(Stream!vars)
<1> SUFFICES ASSUME CallsOK, Enqueue PROVE UNCHANGED Stream!vars
  OBVIOUS
<1>1. Contents' = Contents
  <2>1. ring'.head = ring.head /\ Ready' = Ready
    BY EnqueueCopies
  <2>2. \A k \in 1..Ready : ring'.buffer[(ring.head + k - 1) % QueueSize]
                              = ring.buffer[(ring.head + k - 1) % QueueSize]
    BY EnqueueCopies DEF Place
  <2> QED
    BY <2>1, <2>2 DEF Contents, MemcpyFromQueue
<1>2. sent' = sent /\ reader' = reader
  BY DEF Enqueue
<1> QED
  BY <1>1, <1>2 DEF Contents, Stream!vars

\* Moving the tail puts the bytes of the send behind those under way.
LEMMA PublishStream == CallsOK /\ Copying /\ Publish => [Stream!Next]_(Stream!vars)
<1> SUFFICES ASSUME CallsOK, Copying, Publish PROVE [Stream!Next]_(Stream!vars)
  OBVIOUS
<1> DEFINE n == sender.count
           bytes == [k \in 1..n |-> (sent + k - 1) % Numbers]
<1>1. /\ n \in Nat /\ n <= Space /\ sent \in Byte
      /\ Space \in Nat /\ Ready \in Nat /\ Space + Ready = QueueSize - 1
      /\ ring.tail \in Offset /\ ring.head \in Offset
  BY SpaceAndReady, QueueSizeAssumption
  DEF Copying, CallsOK, SenderOK, Sender, RingOK, Ring
<1>2. ring'.buffer = ring.buffer /\ ring'.head = ring.head /\ Ready' = Ready + n
  BY PublishMoves
<1>3. sent' = (sent + n) % Numbers /\ reader' = reader /\ sender.pc = "publish"
  BY DEF Publish
<1>4. bytes \in Seq(Byte) /\ Len(bytes) = n /\ \A k \in 1..n : bytes[k] = (sent + k - 1) % Numbers
  <2>1. \A k \in 1..n : bytes[k] = (sent + k - 1) % Numbers
    OBVIOUS
  <2>2. bytes \in Seq(Byte)
    BY <1>1, NumberedBytes
  <2>3. DOMAIN bytes = 1..n
    OBVIOUS
  <2> HIDE DEF bytes
  <2>4. Len(bytes) = n
    BY <1>1, <2>2, <2>3, LenProperties
  <2> QED
    BY <2>1, <2>2, <2>4
<1>5. \A k \in 1..n : ring.buffer[Place(ring.tail, k)] = (sent + k - 1) % Numbers
  BY <1>3 DEF Copying, Written
<1> HIDE DEF n, bytes
<1>6. /\ Contents' \in Seq(Byte) /\ Len(Contents') = Ready + n
      /\ \A k \in 1..Ready + n : Contents'[k] = ring.buffer[Place(ring.head, k)]
  <2>1. ring.buffer \in [Offset -> Byte] /\ Ready + n \in Nat
    BY <1>1 DEF CallsOK, RingOK, Ring
  <2>2. Contents' = MemcpyFromQueue(ring.buffer, ring.head, Ready + n)
    BY <1>2 DEF Contents
  <2> QED
    BY <1>1, <2>1, <2>2, CopiedOut
<1>7. /\ Contents \in Seq(Byte) /\ Len(Contents) = Ready
      /\ \A k \in 1..Ready : Contents[k] = ring.buffer[Place(ring.head, k)]
  BY ContentsAre
<1>8. Contents' = Contents \o bytes
  <2>1. /\ Contents \o bytes \in Seq(Byte) /\ Len(Contents \o bytes) = Ready + n
        /\ \A k \in 1..Ready + n : (Contents \o bytes)[k]
             = IF k <= Ready THEN Contents[k] ELSE bytes[k - Ready]
    BY <1>4, <1>7, ConcatProperties
  <2>2. ASSUME NEW k \in 1..Ready + n PROVE Contents'[k] = (Contents \o bytes)[k]
    <3>1. CASE k <= Ready
      <4>1. k \in 1..Ready
        BY <1>1, <3>1
      <4> QED
        BY <1>6, <1>7, <2>1, <3>1, <4>1
    <3>2. CASE ~(k <= Ready)
      <4>1. PICK j \in 1..n : k = Ready + j /\ k - Ready = j
        <5>1. k - Ready \in 1..n /\ k = Ready + (k - Ready)
          BY <1>1, <3>2
        <5> QED
          BY <5>1
      <4>2. Place(ring.head, Ready + j) = Place(ring.tail, j)
        <5>1. j \in 1..FreeSpace(ring.tail, ring.head)
          BY <1>1 DEF Space
        <5> QED
          BY <1>1, <5>1, BehindReady DEF Ready
      <4> QED
        BY <1>4, <1>5, <1>6, <2>1, <3>2, <4>1, <4>2, ZenonT(60)
    <3> QED
      BY <3>1, <3>2
  <2> QED
    BY <1>6, <2>1, <2>2, SeqEqual
<1>9. CASE n = 0
  <2>1. Contents' = Contents
    BY <1>1, <1>2, <1>9 DEF Contents
  <2>2. sent' = sent
    <3>1. sent % Numbers = sent
      BY <1>1, NotifyAssumption DEF Byte
    <3>2. sent + n = sent
      BY <1>1, <1>9 DEF Byte
    <3> QED
      BY <1>3, <3>1, <3>2
  <2> QED
    BY <1>3, <2>1, <2>2 DEF Contents, Stream!vars
<1>10. CASE n # 0
  <2>1. n \in 1..QueueSize - 1 /\ Len(Contents) + n <= QueueSize - 1
    BY <1>1, <1>7, <1>10, QueueSizeAssumption
  <2>2. Stream!Put(n)
    BY <1>3, <1>8, <2>1 DEF Contents, bytes, Stream!Put
  <2> QED
    BY <2>1, <2>2 DEF Stream!Next
<1> QED
  BY <1>9, <1>10

\* A receive copies the oldest bytes.
LEMMA DequeueStream == CallsOK /\ Dequeue => [Stream!Next]_(Stream!vars)
<1> SUFFICES ASSUME CallsOK, Dequeue PROVE [Stream!Next]_(Stream!vars)
  OBVIOUS
<1>1. PICK n \in 0..Ready : reader'.got = MemcpyFromQueue(ring.buffer, ring.head, n)
  BY DequeueCopies
<1>2. /\ n \in Nat /\ n <= Ready /\ Ready \in 0..QueueSize - 1
      /\ ring.buffer \in [Offset -> Byte] /\ ring.head \in Offset
  BY SpaceAndReady, QueueSizeAssumption DEF CallsOK, RingOK, Ring
<1>3. /\ Contents \in Seq(Byte) /\ Len(Contents) = Ready
      /\ \A k \in 1..Ready : Contents[k] = ring.buffer[Place(ring.head, k)]
  BY ContentsAre
<1>4. Contents' = Contents /\ sent' = sent
  BY DEF Dequeue, Contents, Ready
<1>5. /\ reader'.got \in Seq(Byte) /\ Len(reader'.got) = n
      /\ \A k \in 1..n : reader'.got[k] = ring.buffer[Place(ring.head, k)]
  BY <1>1, <1>2, CopiedOut
<1>6. CASE n = 0
  <2>1. reader'.got = <<>>
    BY <1>5, <1>6
  <2> QED
    BY <1>4, <2>1 DEF Contents, Stream!Next, Stream!Forget
<1>7. CASE n # 0
  <2>1. n \in 1..QueueSize - 1 /\ n <= Len(Contents)
    BY <1>2, <1>3, <1>7, QueueSizeAssumption
  <2>2. \A k \in 1..n : k \in 1..Ready /\ Contents[k] \in Byte
    <3> SUFFICES ASSUME NEW k \in 1..n PROVE k \in 1..Ready /\ Contents[k] \in Byte
      OBVIOUS
    <3>1. k \in 1..Ready
      BY <1>2
    <3> QED
      BY <1>3, <3>1, ElementOfSeq
  <2>3. /\ SubSeq(Contents, 1, n) \in Seq(Byte) /\ Len(SubSeq(Contents, 1, n)) = n
        /\ \A k \in 1..n : SubSeq(Contents, 1, n)[k] = Contents[k]
    <3>1. /\ SubSeq(Contents, 1, n) \in Seq(Byte)
          /\ Len(SubSeq(Contents, 1, n)) = IF 1 <= n THEN n - 1 + 1 ELSE 0
          /\ \A k \in 1..n - 1 + 1 : SubSeq(Contents, 1, n)[k] = Contents[1 + k - 1]
      BY <1>2, <2>2, SubSeqProperties
    <3>2. n - 1 + 1 = n /\ 1 <= n /\ \A k \in 1..n : 1 + k - 1 = k
      BY <2>1
    <3> QED
      BY <3>1, <3>2
  <2>4. reader'.got = SubSeq(Contents, 1, n)
    BY <1>3, <1>5, <2>2, <2>3, SeqEqual
  <2>5. Stream!Copy(n)
    BY <1>4, <2>1, <2>4 DEF Contents, Stream!Copy
  <2> QED
    BY <2>1, <2>5 DEF Stream!Next
<1> QED
  BY <1>6, <1>7

\* Moving the head takes away what was copied, and nothing else.
LEMMA AdvanceStream == CallsOK /\ Copying /\ Advance => [Stream!Next]_(Stream!vars)
<1> SUFFICES ASSUME CallsOK, Copying, Advance PROVE [Stream!Next]_(Stream!vars)
  OBVIOUS
<1> DEFINE got == reader.got
           n == Len(got)
<1>1. /\ n \in Nat /\ n <= Ready /\ Ready \in 0..QueueSize - 1 /\ got \in Seq(Byte)
      /\ ring.buffer \in [Offset -> Byte] /\ ring.head \in Offset
  BY AdvanceMoves, SpaceAndReady, QueueSizeAssumption DEF CallsOK, RingOK, Ring, ReaderOK, Reader
<1>2. /\ ring'.head = AddPointer(ring.head, n) /\ ring'.buffer = ring.buffer
      /\ Ready' = Ready - n /\ reader'.got = <<>>
  BY AdvanceMoves
<1>3. /\ Contents \in Seq(Byte) /\ Len(Contents) = Ready
      /\ \A k \in 1..Ready : Contents[k] = ring.buffer[Place(ring.head, k)]
  BY ContentsAre
<1>4. \A k \in 1..n : got[k] = ring.buffer[Place(ring.head, k)]
  BY DEF Advance, Copying, Taken
<1>5. sent' = sent
  BY DEF Advance
<1> HIDE DEF got, n
<1>6. \A k \in 1..Ready : Contents[k] \in Byte
  BY <1>3, ElementOfSeq
<1>7. got = SubSeq(Contents, 1, n)
  <2>1. \A k \in 1..n : k \in 1..Ready /\ Contents[k] \in Byte
    BY <1>1, <1>6
  <2>2. /\ SubSeq(Contents, 1, n) \in Seq(Byte)
        /\ Len(SubSeq(Contents, 1, n)) = IF 1 <= n THEN n - 1 + 1 ELSE 0
        /\ \A k \in 1..n - 1 + 1 : SubSeq(Contents, 1, n)[k] = Contents[1 + k - 1]
    BY <1>1, <2>1, SubSeqProperties
  <2>3. n - 1 + 1 = n /\ (IF 1 <= n THEN n ELSE 0) = n /\ \A k \in 1..n : 1 + k - 1 = k
    BY <1>1
  <2>4. Len(got) = n
    BY DEF n
  <2> QED
    BY <1>1, <1>3, <1>4, <2>1, <2>2, <2>3, <2>4, SeqEqual
<1>8. Contents' = SubSeq(Contents, n + 1, Ready)
  <2>1. AddPointer(ring.head, n) \in Offset /\ Ready - n \in Nat
    BY <1>1, AddPointerOffset, QueueSizeAssumption
  <2>2. Contents' = MemcpyFromQueue(ring.buffer, AddPointer(ring.head, n), Ready - n)
    BY <1>2 DEF Contents
  <2>3. /\ Contents' \in Seq(Byte) /\ Len(Contents') = Ready - n
        /\ \A k \in 1..Ready - n :
             Contents'[k] = ring.buffer[Place(AddPointer(ring.head, n), k)]
    BY <1>1, <2>1, <2>2, CopiedOut
  <2>4. \A k \in n + 1..Ready : Contents[k] \in Byte
    BY <1>1, <1>6
  <2>5. /\ SubSeq(Contents, n + 1, Ready) \in Seq(Byte)
        /\ Len(SubSeq(Contents, n + 1, Ready)) = Ready - n
        /\ \A k \in 1..Ready - n : SubSeq(Contents, n + 1, Ready)[k] = Contents[n + k]
    <3>1. /\ SubSeq(Contents, n + 1, Ready) \in Seq(Byte)
          /\ Len(SubSeq(Contents, n + 1, Ready))
               = IF n + 1 <= Ready THEN Ready - (n + 1) + 1 ELSE 0
          /\ \A k \in 1..Ready - (n + 1) + 1 :
               SubSeq(Contents, n + 1, Ready)[k] = Contents[n + 1 + k - 1]
      <4>1. n + 1 \in Int /\ Ready \in Int
        BY <1>1
      <4> QED
        BY <2>4, <4>1, SubSeqProperties
    <3>2. /\ Ready - (n + 1) + 1 = Ready - n
          /\ (IF n + 1 <= Ready THEN Ready - n ELSE 0) = Ready - n
          /\ \A k \in 1..Ready - n : n + 1 + k - 1 = n + k
      BY <1>1
    <3> QED
      BY <3>1, <3>2
  <2>6. ASSUME NEW k \in 1..Ready - n
        PROVE  Contents'[k] = SubSeq(Contents, n + 1, Ready)[k]
    <3>1. n + k \in 1..Ready /\ n \in 0..QueueSize - 1 /\ k \in 1..QueueSize - 1 - n
      BY <1>1, QueueSizeAssumption
    <3>2. Place(AddPointer(ring.head, n), k) = Place(ring.head, n + k)
      BY <1>1, <3>1, BehindTaken
    <3> QED
      BY <1>3, <2>3, <2>5, <3>1, <3>2
  <2> QED
    BY <2>3, <2>5, <2>6, SeqEqual
<1>9. CASE got = <<>>
  <2>1. n = 0
    BY <1>9 DEF n
  <2>2. Contents' = Contents
    <3>1. AddPointer(ring.head, 0) = ring.head /\ Ready - 0 = Ready
      BY <1>1, QueueSizeAssumption DEF AddPointer, Offset
    <3> QED
      BY <1>2, <2>1, <3>1 DEF Contents
  <2> QED
    BY <1>2, <1>5, <2>2 DEF Contents, Stream!Next, Stream!Forget
<1>10. CASE got # <<>>
  <2>1. Stream!Remove
    BY <1>2, <1>3, <1>5, <1>7, <1>8, <1>10 DEF got, n, Contents, Stream!Remove
  <2> QED
    BY <2>1 DEF Stream!Next
<1> QED
  BY <1>9, <1>10

\* Bytes come out in the order in which they went in, none twice and none lost,
\* and never more than the ring holds (VMCIQueue_EnqueueV and _DequeueV): either
\* end copies while the other one moves its offset, for rings of any size.
THEOREM BytesInOrder == Spec => ImplementsStream
<1>1. Inv /\ CallsOK /\ Copying /\ [Next]_vars => [Stream!Next]_(Stream!vars)
  BY StepsAside, AsideStream, EnqueueStream, PublishStream, DequeueStream, AdvanceStream
<1> QED
  BY <1>1, InitStream, CopyingHolds, PTL DEF Spec, ImplementsStream, Stream!Spec
-----------------------------------------------------------------------------
(* Sequences: the lists of the listener, the packets and the works *)

NoRepetition(q) == \A i, j \in DOMAIN q : q[i] = q[j] => i = j

LEMMA RemoveAtIs ==
  ASSUME NEW S, NEW q \in Seq(S), NEW i \in DOMAIN q
  PROVE  /\ RemoveAt(q, i) \in Seq(S)
         /\ Len(RemoveAt(q, i)) = Len(q) - 1
         /\ \A j \in 1..(Len(q) - 1) : RemoveAt(q, i)[j] = IF j < i THEN q[j] ELSE q[j + 1]
<1> DEFINE a == SubSeq(q, 1, i - 1)
           b == SubSeq(q, i + 1, Len(q))
<1>1. i \in 1..Len(q) /\ Len(q) \in Nat
  BY LenProperties
<1>2. \A j \in 1..Len(q) : q[j] \in S
  BY ElementOfSeq
<1>3. a \in Seq(S) /\ Len(a) = i - 1 /\ \A j \in 1..(i - 1) : a[j] = q[j]
  <2>1. \A j \in 1..(i - 1) : q[j] \in S
    BY <1>1, <1>2
  <2>2. /\ a \in Seq(S)
        /\ Len(a) = IF 1 <= i - 1 THEN i - 1 - 1 + 1 ELSE 0
        /\ \A j \in 1..(i - 1 - 1 + 1) : a[j] = q[1 + j - 1]
    BY <2>1, <1>1, SubSeqProperties
  <2> HIDE DEF a
  <2> QED
    BY <2>2, <1>1
<1>4. b \in Seq(S) /\ Len(b) = Len(q) - i /\ \A j \in 1..(Len(q) - i) : b[j] = q[i + j]
  <2>1. \A j \in (i + 1)..Len(q) : q[j] \in S
    BY <1>1, <1>2
  <2>2. /\ b \in Seq(S)
        /\ Len(b) = IF i + 1 <= Len(q) THEN Len(q) - (i + 1) + 1 ELSE 0
        /\ \A j \in 1..(Len(q) - (i + 1) + 1) : b[j] = q[(i + 1) + j - 1]
    BY <2>1, <1>1, SubSeqProperties
  <2> HIDE DEF b
  <2> QED
    BY <2>2, <1>1
<1>5. RemoveAt(q, i) = a \o b
  BY DEF RemoveAt
<1> HIDE DEF a, b
<1>6. /\ a \o b \in Seq(S) /\ Len(a \o b) = Len(a) + Len(b)
      /\ \A j \in 1..(Len(a) + Len(b)) : (a \o b)[j] = IF j <= Len(a) THEN a[j] ELSE b[j - Len(a)]
  BY <1>3, <1>4, ConcatProperties
<1>7. \A j \in 1..(Len(q) - 1) : (a \o b)[j] = IF j < i THEN q[j] ELSE q[j + 1]
  <2> TAKE j \in 1..(Len(q) - 1)
  <2>1. CASE j < i
    BY <2>1, <1>1, <1>3, <1>4, <1>6, SMTT(30)
  <2>2. CASE ~(j < i)
    <3>0. Len(a) = i - 1 /\ j \in 1..(Len(a) + Len(b)) /\ ~(j <= Len(a))
      BY <2>2, <1>1, <1>3, <1>4
    <3>1. (a \o b)[j] = b[j - (i - 1)]
      BY <3>0, <1>6
    <3>2. j - (i - 1) \in 1..(Len(q) - i)
      BY <2>2, <1>1
    <3>3. b[j - (i - 1)] = q[i + (j - (i - 1))]
      BY <3>2, <1>4
    <3>4. i + (j - (i - 1)) = j + 1
      BY <1>1
    <3> QED
      BY <2>2, <3>1, <3>3, <3>4
  <2> QED
    BY <2>1, <2>2
<1> QED
  BY <1>1, <1>3, <1>4, <1>5, <1>6, <1>7, SMTT(30)

\* What is taken out of a sequence leaves the rest in it.
LEMMA RemoveAtRange ==
  ASSUME NEW S, NEW q \in Seq(S), NEW i \in DOMAIN q
  PROVE  /\ Range(RemoveAt(q, i)) \subseteq Range(q)
         /\ \A x \in Range(q) : x # q[i] => x \in Range(RemoveAt(q, i))
<1> DEFINE r == RemoveAt(q, i)
<1>1. i \in 1..Len(q) /\ Len(q) \in Nat
  BY LenProperties
<1>2. r \in Seq(S) /\ Len(r) = Len(q) - 1 /\ \A j \in 1..(Len(q) - 1) : r[j] = IF j < i THEN q[j] ELSE q[j + 1]
  BY RemoveAtIs
<1> HIDE DEF r
<1>3. Range(r) = {r[j] : j \in 1..(Len(q) - 1)} /\ Range(q) = {q[j] : j \in 1..Len(q)}
  BY <1>2, RangeEquality
<1>4. Range(r) \subseteq Range(q)
  BY <1>1, <1>2, <1>3
<1>5. ASSUME NEW x \in Range(q), x # q[i] PROVE x \in Range(r)
  <2>1. PICK j \in 1..Len(q) : x = q[j]
    BY <1>3
  <2>2. CASE j < i
    <3>1. j \in 1..(Len(q) - 1) /\ r[j] = q[j]
      BY <2>2, <1>1, <1>2
    <3> QED
      BY <3>1, <2>1, <1>3
  <2>3. CASE ~(j < i)
    <3>1. j - 1 \in 1..(Len(q) - 1) /\ r[j - 1] = q[j]
      <4>1. j # i
        BY <1>5, <2>1
      <4>2. j - 1 \in 1..(Len(q) - 1) /\ ~(j - 1 < i) /\ j - 1 + 1 = j
        BY <4>1, <2>3, <1>1
      <4> QED
        BY <4>2, <1>2
    <3> QED
      BY <3>1, <2>1, <1>3
  <2> QED
    BY <2>2, <2>3
<1> QED
  BY <1>4, <1>5 DEF r

\* A member that is there once is taken off a list.
LEMMA RemoveFirstIs ==
  ASSUME NEW S, NEW q \in Seq(S), NoRepetition(q), NEW e \in Range(q), NEW r, r = RemoveFirst(q, e)
  PROVE  /\ r \in Seq(S) /\ Len(r) = Len(q) - 1
         /\ Range(r) = Range(q) \ {e}
         /\ NoRepetition(r)
<1>1. Len(q) \in Nat /\ DOMAIN q = 1..Len(q)
  BY LenProperties
<1>2. PICK i \in 1..Len(q) : q[i] = e
  BY RangeEquality
<1>3. RemoveFirst(q, e) = RemoveAt(q, SelectInSeq(q, LAMBDA v : v = e))
  BY <1>2 DEF RemoveFirst
<1>4. {j \in 1..Len(q) : q[j] = e} = {i}
  BY <1>1, <1>2 DEF NoRepetition
<1>5. SelectInSeq(q, LAMBDA v : v = e) = Min({i})
  BY <1>4 DEF SelectInSeq
<1>6. Min({i}) = i
  BY <1>1 DEF Min
<1>7. r = RemoveAt(q, i)
  BY <1>3, <1>5, <1>6
<1>8. r \in Seq(S) /\ Len(r) = Len(q) - 1 /\ \A j \in 1..(Len(q) - 1) : r[j] = IF j < i THEN q[j] ELSE q[j + 1]
  BY <1>1, <1>7, RemoveAtIs
<1>9. Range(r) \subseteq Range(q) /\ \A x \in Range(q) : x # q[i] => x \in Range(r)
  BY <1>1, <1>7, RemoveAtRange
<1>10. DOMAIN r = 1..(Len(q) - 1)
  BY <1>8, LenProperties
<1>11. NoRepetition(r)
  <2> SUFFICES ASSUME NEW j \in 1..(Len(q) - 1), NEW k \in 1..(Len(q) - 1), r[j] = r[k] PROVE j = k
    BY <1>10 DEF NoRepetition
  <2>1. PICK f : f = [x \in 1..(Len(q) - 1) |-> IF x < i THEN x ELSE x + 1]
    OBVIOUS
  <2>2. \A x \in 1..(Len(q) - 1) : f[x] \in 1..Len(q) /\ q[f[x]] = r[x]
    BY <2>1, <1>1, <1>8
  <2>3. f[j] = f[k]
    BY <2>2, <1>1 DEF NoRepetition
  <2> QED
    BY <2>1, <2>3
<1>12. e \notin Range(r)
  <2> SUFFICES ASSUME NEW j \in 1..(Len(q) - 1), r[j] = e PROVE FALSE
    BY <1>8, RangeEquality
  <2> DEFINE f(x) == IF x < i THEN x ELSE x + 1
  <2>1. f(j) \in 1..Len(q) /\ q[f(j)] = e /\ f(j) # i
    BY <1>1, <1>8
  <2> QED
    BY <2>1, <1>1, <1>2 DEF NoRepetition
<1> QED
  BY <1>2, <1>8, <1>9, <1>11, <1>12

LEMMA AppendRange ==
  ASSUME NEW S, NEW q \in Seq(S), NEW x \in S
  PROVE  /\ Append(q, x) \in Seq(S)
         /\ Len(Append(q, x)) = Len(q) + 1
         /\ Range(Append(q, x)) = Range(q) \cup {x}
         /\ NoRepetition(q) /\ x \notin Range(q) => NoRepetition(Append(q, x))
<1> DEFINE r == Append(q, x)
<1>1. /\ r \in Seq(S) /\ Len(r) = Len(q) + 1
      /\ \A i \in 1..Len(q) : r[i] = q[i]
      /\ r[Len(q) + 1] = x
  BY AppendProperties
<1>2. Len(q) \in Nat /\ DOMAIN q = 1..Len(q)
  BY LenProperties
<1> HIDE DEF r
<1>3. Range(r) = {r[i] : i \in 1..(Len(q) + 1)} /\ Range(q) = {q[i] : i \in 1..Len(q)}
  BY <1>1, RangeEquality
<1>4. 1..(Len(q) + 1) = 1..Len(q) \cup {Len(q) + 1}
  BY <1>2
<1>5. Range(r) = Range(q) \cup {x}
  BY <1>1, <1>3, <1>4
<1>6. DOMAIN r = 1..(Len(q) + 1)
  BY <1>1, LenProperties
<1>7. ASSUME NoRepetition(q), x \notin Range(q) PROVE NoRepetition(r)
  <2> SUFFICES ASSUME NEW i \in 1..(Len(q) + 1), NEW j \in 1..(Len(q) + 1), r[i] = r[j] PROVE i = j
    BY <1>6 DEF NoRepetition
  <2>1. \A k \in 1..Len(q) : r[k] # x
    BY <1>1, <1>3, <1>7
  <2>2. CASE i \in 1..Len(q) /\ j \in 1..Len(q)
    BY <2>2, <1>1, <1>2, <1>7 DEF NoRepetition
  <2>3. CASE i = Len(q) + 1 \/ j = Len(q) + 1
    BY <2>1, <2>3, <1>1, <1>4
  <2> QED
    BY <2>2, <2>3, <1>4
<1> QED
  BY <1>1, <1>5, <1>7 DEF r

LEMMA TailRange ==
  ASSUME NEW S, NEW q \in Seq(S), q # <<>>
  PROVE  /\ Head(q) \in Range(q) /\ Head(q) \in S
         /\ Tail(q) \in Seq(S) /\ Len(Tail(q)) = Len(q) - 1
         /\ Range(q) = Range(Tail(q)) \cup {Head(q)}
         /\ NoRepetition(q) => NoRepetition(Tail(q)) /\ Range(Tail(q)) = Range(q) \ {Head(q)}
<1> DEFINE r == Tail(q)
<1>1. Head(q) \in S /\ r \in Seq(S) /\ Len(r) = Len(q) - 1 /\ \A i \in 1..Len(r) : r[i] = q[i + 1]
  BY HeadTailProperties
<1>2. Len(q) \in Nat \ {0} /\ DOMAIN q = 1..Len(q)
  BY LenProperties, EmptySeq
<1>3. Head(q) = q[1]
  OBVIOUS
<1> HIDE DEF r
<1>4. Range(r) = {r[i] : i \in 1..(Len(q) - 1)} /\ Range(q) = {q[i] : i \in 1..Len(q)}
  BY <1>1, RangeEquality
<1>5. Range(q) = Range(r) \cup {Head(q)}
  <2>1. \A i \in 1..(Len(q) - 1) : r[i] \in Range(q)
    BY <1>1, <1>2, <1>4
  <2>2. ASSUME NEW i \in 1..Len(q), i # 1 PROVE q[i] \in Range(r)
    <3>1. i - 1 \in 1..(Len(q) - 1) /\ r[i - 1] = q[i]
      BY <2>2, <1>1, <1>2
    <3> QED
      BY <3>1, <1>4
  <2>3. q[1] \in Range(q)
    BY <1>2, <1>4
  <2> QED
    BY <1>3, <1>4, <2>1, <2>2, <2>3
<1>6. ASSUME NoRepetition(q) PROVE NoRepetition(r) /\ Head(q) \notin Range(r)
  <2>1. DOMAIN r = 1..(Len(q) - 1)
    BY <1>1, LenProperties
  <2>2. NoRepetition(r)
    <3> SUFFICES ASSUME NEW i \in 1..(Len(q) - 1), NEW j \in 1..(Len(q) - 1), r[i] = r[j] PROVE i = j
      BY <2>1 DEF NoRepetition
    <3>1. i + 1 \in 1..Len(q) /\ j + 1 \in 1..Len(q) /\ q[i + 1] = q[j + 1]
      BY <1>1, <1>2
    <3>2. i + 1 = j + 1
      BY <3>1, <1>2, <1>6 DEF NoRepetition
    <3> QED
      BY <3>2
  <2>3. ASSUME NEW i \in 1..(Len(q) - 1), r[i] = Head(q) PROVE FALSE
    <3>1. i + 1 \in 1..Len(q) /\ 1 \in 1..Len(q) /\ q[i + 1] = q[1]
      BY <2>3, <1>1, <1>2, <1>3
    <3>2. i + 1 = 1
      BY <3>1, <1>2, <1>6 DEF NoRepetition
    <3> QED
      BY <3>2
  <2> QED
    BY <2>2, <2>3, <1>4
<1> QED
  BY <1>1, <1>5, <1>6 DEF r

-----------------------------------------------------------------------------
(* Works, and how many there are on a socket *)

Work == [on : Children \cup {Listener}, type : Packet]

\* The works on socket s when the works of the clients are f.
WorksIn(f, s) == {x \in Clients \X Nat : x[2] \in DOMAIN f[x[1]] /\ f[x[1]][x[2]].on = s}

LEMMA WorksAre ==
  ASSUME serverWork \in [Clients -> Seq(Work)], NEW s
  PROVE  Works(s) = WorksIn(serverWork, s)
<1>1. \A c \in Clients : DOMAIN serverWork[c] \subseteq Nat
  <2> TAKE c \in Clients
  <2>1. serverWork[c] \in Seq(Work)
    OBVIOUS
  <2>2. DOMAIN serverWork[c] = 1..Len(serverWork[c]) /\ Len(serverWork[c]) \in Nat
    BY <2>1, LenProperties
  <2> QED
    BY <2>2
<1>2. ASSUME NEW x \in Works(s) PROVE x \in WorksIn(serverWork, s)
  BY <1>1, <1>2 DEF Works, WorksOn, WorksIn
<1>3. ASSUME NEW x \in WorksIn(serverWork, s) PROVE x \in Works(s)
  <2>1. PICK c \in Clients, i \in Nat : x = <<c, i>> /\ i \in DOMAIN serverWork[c] /\ serverWork[c][i].on = s
    BY <1>3 DEF WorksIn
  <2>2. x \in {c} \X WorksOn(s, c)
    BY <2>1 DEF WorksOn
  <2> QED
    BY <2>2 DEF Works
<1> QED
  BY <1>2, <1>3

MoreWork(f, c, w) == [f EXCEPT ![c] = Append(@, w)]
FewerWork(f, c, i) == [f EXCEPT ![c] = RemoveAt(@, i)]

\* One more work.
LEMMA MoreWorks ==
  ASSUME NEW f \in [Clients -> Seq(Work)], NEW c \in Clients, NEW w \in Work, NEW s,
         IsFiniteSet(WorksIn(f, s)),
         NEW g, g = MoreWork(f, c, w)
  PROVE  /\ g \in [Clients -> Seq(Work)]
         /\ IsFiniteSet(WorksIn(g, s))
         /\ Cardinality(WorksIn(g, s)) = Cardinality(WorksIn(f, s)) + (IF w.on = s THEN 1 ELSE 0)
<1>0. /\ DOMAIN g = Clients /\ g[c] = Append(f[c], w)
      /\ \A d \in Clients : d # c => g[d] = f[d]
  BY DEF MoreWork
<1>1. f[c] \in Seq(Work)
  OBVIOUS
<1>2. /\ g[c] \in Seq(Work) /\ Len(g[c]) = Len(f[c]) + 1
      /\ \A i \in 1..Len(f[c]) : g[c][i] = f[c][i]
      /\ g[c][Len(f[c]) + 1] = w
  BY <1>0, <1>1, AppendProperties
<1>3. Len(f[c]) \in Nat /\ DOMAIN f[c] = 1..Len(f[c]) /\ DOMAIN g[c] = 1..(Len(f[c]) + 1)
  BY <1>1, <1>2, LenProperties
<1>4. \A d \in Clients : d # c => g[d] = f[d]
  BY <1>0
<1>5. g \in [Clients -> Seq(Work)]
  <2>1. g = [d \in Clients |-> g[d]]
    BY DEF MoreWork
  <2>2. \A d \in Clients : g[d] \in Seq(Work)
    BY <1>2, <1>4
  <2> QED
    BY <2>1, <2>2
<1> DEFINE n == <<c, Len(f[c]) + 1>>
<1>6. n \notin WorksIn(f, s)
  BY <1>3 DEF WorksIn
<1>7. ASSUME NEW x \in Clients \X Nat, x # n PROVE x \in WorksIn(g, s) <=> x \in WorksIn(f, s)
  <2>1. PICK d \in Clients, i \in Nat : x = <<d, i>>
    OBVIOUS
  <2>2. CASE d # c
    BY <2>1, <2>2, <1>4 DEF WorksIn
  <2>3. CASE d = c
    <3>1. i # Len(f[c]) + 1
      BY <1>7, <2>1, <2>3
    <3>2. i \in DOMAIN g[c] <=> i \in DOMAIN f[c]
      BY <3>1, <1>3
    <3>3. i \in DOMAIN f[c] => g[c][i] = f[c][i]
      BY <1>2, <1>3
    <3> QED
      BY <2>1, <2>3, <3>2, <3>3 DEF WorksIn
  <2> QED
    BY <2>2, <2>3
<1>8. n \in WorksIn(g, s) <=> w.on = s
  BY <1>2, <1>3 DEF WorksIn
<1>9. WorksIn(g, s) \subseteq Clients \X Nat /\ WorksIn(f, s) \subseteq Clients \X Nat /\ n \in Clients \X Nat
  BY <1>3 DEF WorksIn
<1> HIDE DEF n
<1>10. WorksIn(g, s) = IF w.on = s THEN WorksIn(f, s) \cup {n} ELSE WorksIn(f, s)
  <2>1. \A x : x \in WorksIn(g, s) <=> x \in (IF w.on = s THEN WorksIn(f, s) \cup {n} ELSE WorksIn(f, s))
    <3> TAKE x
    <3>1. CASE x = n
      BY <3>1, <1>6, <1>8
    <3>2. CASE x # n
      BY <3>2, <1>7, <1>9
    <3> QED
      BY <3>1, <3>2
  <2> QED
    BY <2>1
<1>11. IsFiniteSet(WorksIn(g, s))
       /\ Cardinality(WorksIn(g, s)) = Cardinality(WorksIn(f, s)) + (IF w.on = s THEN 1 ELSE 0)
  <2>1. CASE w.on = s
    <3>1. WorksIn(g, s) = WorksIn(f, s) \cup {n}
      BY <2>1, <1>10
    <3>2. /\ IsFiniteSet(WorksIn(f, s) \cup {n})
          /\ Cardinality(WorksIn(f, s) \cup {n}) = Cardinality(WorksIn(f, s)) + 1
      BY <1>6, FS_AddElement
    <3> QED
      BY <2>1, <3>1, <3>2
  <2>2. CASE w.on # s
    BY <2>2, <1>10, FS_CardinalityType
  <2> QED
    BY <2>1, <2>2
<1> QED
  BY <1>5, <1>11

\* One work is done; those behind it move up.
LEMMA FewerWorks ==
  ASSUME NEW f \in [Clients -> Seq(Work)], NEW c \in Clients, NEW k \in DOMAIN f[c], NEW s,
         IsFiniteSet(WorksIn(f, s)),
         NEW g, g = FewerWork(f, c, k)
  PROVE  /\ g \in [Clients -> Seq(Work)]
         /\ IsFiniteSet(WorksIn(g, s))
         /\ Cardinality(WorksIn(g, s)) = Cardinality(WorksIn(f, s)) - (IF f[c][k].on = s THEN 1 ELSE 0)
         /\ f[c][k].on = s => Cardinality(WorksIn(f, s)) # 0
<1>0. /\ DOMAIN g = Clients /\ g[c] = RemoveAt(f[c], k)
      /\ \A d \in Clients : d # c => g[d] = f[d]
  BY DEF FewerWork
<1>1. f[c] \in Seq(Work)
  OBVIOUS
<1>2. /\ g[c] \in Seq(Work) /\ Len(g[c]) = Len(f[c]) - 1
      /\ \A i \in 1..(Len(f[c]) - 1) : g[c][i] = IF i < k THEN f[c][i] ELSE f[c][i + 1]
  BY <1>0, <1>1, RemoveAtIs
<1>3. /\ Len(f[c]) \in Nat /\ DOMAIN f[c] = 1..Len(f[c]) /\ DOMAIN g[c] = 1..(Len(f[c]) - 1)
      /\ k \in 1..Len(f[c])
  BY <1>1, <1>2, LenProperties
<1>4. \A d \in Clients : d # c => g[d] = f[d]
  BY <1>0
<1>5. g \in [Clients -> Seq(Work)]
  <2>1. g = [d \in Clients |-> g[d]]
    BY DEF FewerWork
  <2>2. \A d \in Clients : g[d] \in Seq(Work)
    BY <1>2, <1>4
  <2> QED
    BY <2>1, <2>2
<1> DEFINE n == <<c, k>>
           A == WorksIn(f, s) \ {n}
           B == WorksIn(g, s)
<1>6. A \subseteq Clients \X Nat /\ B \subseteq Clients \X Nat /\ n \in Clients \X Nat
  BY <1>3 DEF WorksIn
<1>7. n \in WorksIn(f, s) <=> f[c][k].on = s
  BY <1>3 DEF WorksIn
<1>8. PICK h : h = [x \in A |-> IF x[1] = c /\ x[2] > k THEN <<c, x[2] - 1>> ELSE x]
  OBVIOUS
<1>9. ASSUME NEW x \in A PROVE h[x] \in B
  <2>1. PICK d \in Clients, i \in Nat : x = <<d, i>> /\ i \in DOMAIN f[d] /\ f[d][i].on = s /\ x # n
    BY <1>9 DEF WorksIn
  <2>2. CASE d # c
    BY <2>1, <2>2, <1>4, <1>8 DEF WorksIn
  <2>3. CASE d = c /\ i < k
    <3>0. i \in 1..(Len(f[c]) - 1)
      BY <2>1, <2>3, <1>3
    <3>1. i \in 1..(Len(f[c]) - 1) /\ g[c][i] = f[c][i]
      BY <3>0, <2>3, <1>2
    <3>2. h[x] = <<c, i>>
      BY <2>1, <2>3, <1>3, <1>8
    <3> QED
      BY <3>1, <3>2, <2>1, <2>3, <1>3 DEF WorksIn
  <2>4. CASE d = c /\ ~(i < k)
    <3>1. i > k
      BY <2>1, <2>4, <1>3
    <3>2. i - 1 \in 1..(Len(f[c]) - 1) /\ ~(i - 1 < k) /\ i - 1 + 1 = i
      BY <3>1, <2>1, <2>4, <1>3
    <3>3. g[c][i - 1] = f[c][i]
      BY <3>2, <1>2
    <3>4. h[x] = <<c, i - 1>>
      BY <3>1, <2>1, <2>4, <1>8
    <3> QED
      BY <3>2, <3>3, <3>4, <2>1, <2>4, <1>3 DEF WorksIn
  <2> QED
    BY <2>2, <2>3, <2>4
<1>10. ASSUME NEW y \in B PROVE \E x \in A : h[x] = y
  <2>1. PICK d \in Clients, i \in Nat : y = <<d, i>> /\ i \in DOMAIN g[d] /\ g[d][i].on = s
    BY <1>10 DEF WorksIn
  <2>2. CASE d # c
    <3>1. y \in A
      BY <2>1, <2>2, <1>4 DEF WorksIn
    <3>2. h[y] = y
      BY <3>1, <2>1, <2>2, <1>8
    <3> QED
      BY <3>1, <3>2
  <2>3. CASE d = c /\ i < k
    <3>2. i \in 1..(Len(f[c]) - 1) /\ i \in 1..Len(f[c]) /\ i # k
      BY <2>1, <2>3, <1>3
    <3>0. g[c][i] = f[c][i]
      BY <3>2, <2>3, <1>2
    <3>1. y \in A
      BY <3>0, <3>2, <2>1, <2>3, <1>3 DEF WorksIn
    <3>3. h[y] = y
      BY <3>1, <2>1, <2>3, <1>3, <1>8
    <3> QED
      BY <3>1, <3>3
  <2>4. CASE d = c /\ ~(i < k)
    <3>1. PICK x : x = <<c, i + 1>>
      OBVIOUS
    <3>0. i \in 1..(Len(f[c]) - 1) /\ g[c][i] = f[c][i + 1]
      BY <2>1, <2>4, <1>2, <1>3
    <3>2. i + 1 \in 1..Len(f[c]) /\ f[c][i + 1].on = s /\ i + 1 > k
      BY <3>0, <2>1, <2>4, <1>3
    <3>3. x \in A
      BY <3>1, <3>2, <1>3 DEF WorksIn
    <3>4. h[x] = <<c, i + 1 - 1>>
      BY <3>1, <3>2, <3>3, <1>8
    <3>5. i + 1 - 1 = i
      OBVIOUS
    <3> QED
      BY <2>1, <2>4, <3>3, <3>4, <3>5
  <2> QED
    BY <2>2, <2>3, <2>4
<1>11. ASSUME NEW x \in A, NEW y \in A, h[x] = h[y] PROVE x = y
  <2>1. PICK d \in Clients, i \in Nat : x = <<d, i>> /\ x # n
    BY <1>6, <1>11
  <2>2. PICK e \in Clients, j \in Nat : y = <<e, j>> /\ y # n
    BY <1>6, <1>11
  <2>3. h[x] = IF d = c /\ i > k THEN <<c, i - 1>> ELSE <<d, i>>
    BY <2>1, <1>8
  <2>4. h[y] = IF e = c /\ j > k THEN <<c, j - 1>> ELSE <<e, j>>
    BY <2>2, <1>8
  <2>5. d = e
    BY <2>3, <2>4, <1>11
  <2>6. i = j
    BY <2>1, <2>2, <2>3, <2>4, <2>5, <1>3, <1>11
  <2> QED
    BY <2>1, <2>2, <2>5, <2>6
<1>12. IsFiniteSet(A)
  BY FS_Subset
<1>13. h \in Bijection(A, B)
  <2>0. DOMAIN h = A
    BY <1>8
  <2> HIDE DEF A, B
  <2>1. h \in [A -> B]
    BY <1>8, <1>9, <2>0
  <2> QED
    BY <2>1, <1>10, <1>11 DEF Bijection, Injection, Surjection, IsInjective
<1>14. IsFiniteSet(B) /\ Cardinality(B) = Cardinality(A)
  <2> HIDE DEF A, B
  <2>1. ExistsBijection(A, B)
    BY <1>13 DEF ExistsBijection
  <2> QED
    BY <2>1, <1>12, FS_Bijection
<1>15. Cardinality(A) = Cardinality(WorksIn(f, s)) - (IF f[c][k].on = s THEN 1 ELSE 0)
  <2>1. CASE f[c][k].on = s
    BY <2>1, <1>7, FS_RemoveElement
  <2>2. CASE f[c][k].on # s
    <3>1. A = WorksIn(f, s)
      BY <2>2, <1>7
    <3>2. Cardinality(WorksIn(f, s)) \in Nat
      BY FS_CardinalityType
    <3> HIDE DEF A
    <3> QED
      BY <2>2, <3>1, <3>2
  <2> QED
    BY <2>1, <2>2
<1>16. f[c][k].on = s => Cardinality(WorksIn(f, s)) # 0
  BY <1>7, FS_EmptySet
<1> QED
  BY <1>5, <1>14, <1>15, <1>16

-----------------------------------------------------------------------------
(* A child, and those who hold it *)

Bit(P) == IF P THEN 1 ELSE 0

\* Those who hold child k: P are the pending ones, Q those in the accept queue,
\* and w works are on it.
HeldBy(k, s, P, Q, w) ==
  Bit(k.owner # "none") + Bit(s \in P) + Bit(s \in Q) + Bit(k.table) + Bit(k.timer) + w

\* A child that was put once too often; nobody has it any more.
Overput(k, s, P, Q, w) == k.refs = -1 /\ HeldBy(k, s, P, Q, w) = 0 /\ ~k.qp

ChildOK(k, s, P, Q, w) ==
  /\ k \in Child
  /\ k = Free \/ k.remote \in Clients
  /\ k.refs = HeldBy(k, s, P, Q, w) \/ Overput(k, s, P, Q, w)
  /\ s \in P =>
       /\ k.timer /\ ~k.qp /\ ~k.table /\ ~k.rejected /\ s \notin Q /\ w = 0
       /\ \/ k.state = "connecting" /\ k.owner = "kernel"
          \/ k.state = "unconnected" /\ k.owner = "none"
  /\ s \in Q => k.owner = "kernel" /\ ~k.rejected
  /\ k.rejected /\ k.timer => k.owner = "kernel"
  /\ k.qp \/ (~k.table /\ s \notin Q /\ w = 0)

\* The kernel has put this one before its timer runs.
Stray(k) == k.refs = 2 /\ k.timer /\ k.owner = "none" /\ ~k.table /\ ~k.qp

\* What a step does to a child: it stays the client's while somebody holds it, and
\* none but a stray one is put too often.
Moves(k, m, s, P, Q, w) ==
  /\ ChildOK(m, s, P, Q, w)
  /\ m.remote = k.remote \/ (m = Free /\ s \notin P /\ s \notin Q /\ w = 0)
  /\ m.refs = -1 => k.refs = -1 \/ Stray(k)

LEMMA FreeIsChild == Free \in Child /\ Free.remote \notin Clients /\ ~Free.qp /\ ~Free.table
  BY HandshakeAssumption DEF Free, Child, State

\* Of a child that is free nobody has a reference.
LEMMA FreeIsHeldByNobody ==
  ASSUME NEW s, NEW P, NEW Q, NEW w \in Nat, ChildOK(Free, s, P, Q, w)
  PROVE  s \notin P /\ s \notin Q /\ w = 0
<1>1. Free.refs = 0 /\ Free.owner = "none" /\ ~Free.table /\ ~Free.timer
  BY DEF Free
<1>2. HeldBy(Free, s, P, Q, w) = 0
  BY <1>1 DEF ChildOK, Overput
<1> QED
  BY <1>1, <1>2 DEF HeldBy, Bit

\* The child with another count.
WithCount(k, n) == [k EXCEPT !.refs = n]

LEMMA WithRefs ==
  ASSUME NEW k \in Child, NEW n \in Int, NEW m, m = WithCount(k, n)
  PROVE  /\ m \in Child /\ m.refs = n /\ m.remote = k.remote /\ m.state = k.state
         /\ m.owner = k.owner /\ (m.table <=> k.table) /\ (m.timer <=> k.timer) /\ (m.qp <=> k.qp)
         /\ (m.rejected <=> k.rejected)
  BY DEF Child, WithCount

\* References are dropped by those who have them.
LEMMA PutMoves ==
  ASSUME NEW k \in Child, NEW n \in Nat, NEW s, NEW P, NEW Q, NEW w \in Nat,
         k.remote \in Clients,
         k.refs - n = HeldBy(k, s, P, Q, w),
         s \in P =>
           /\ k.timer /\ ~k.qp /\ ~k.table /\ ~k.rejected /\ s \notin Q /\ w = 0
           /\ \/ k.state = "connecting" /\ k.owner = "kernel"
              \/ k.state = "unconnected" /\ k.owner = "none",
         s \in Q => k.owner = "kernel" /\ ~k.rejected,
         k.rejected /\ k.timer => k.owner = "kernel",
         k.qp \/ (~k.table /\ s \notin Q /\ w = 0)
  PROVE  Moves(k, Put(k, n), s, P, Q, w) /\ Put(k, n).refs # -1
<1>1. CASE k.refs = n
  <2>1. HeldBy(k, s, P, Q, w) = 0
    BY <1>1 DEF Child
  <2>2. s \notin P /\ s \notin Q /\ w = 0
    BY <2>1 DEF HeldBy, Bit
  <2>3. Put(k, n) = Free
    BY <1>1 DEF Put
  <2>4. HeldBy(Free, s, P, Q, w) = 0 /\ Free.refs = 0 /\ ~Free.rejected
    BY <2>2 DEF HeldBy, Bit, Free
  <2>5. ChildOK(Free, s, P, Q, w)
    BY <2>2, <2>4, FreeIsChild DEF ChildOK
  <2> QED
    BY <2>2, <2>3, <2>4, <2>5 DEF Moves
<1>2. CASE k.refs # n
  <2>1. PICK m : m = [k EXCEPT !.refs = k.refs - n]
    OBVIOUS
  <2>2. Put(k, n) = m
    BY <1>2, <2>1 DEF Put
  <2>3. /\ m \in Child /\ m.refs = k.refs - n /\ m.remote = k.remote /\ m.state = k.state
        /\ m.owner = k.owner /\ (m.table <=> k.table) /\ (m.timer <=> k.timer) /\ (m.qp <=> k.qp)
        /\ (m.rejected <=> k.rejected)
    <3>1. k.refs - n \in Int /\ m = WithCount(k, k.refs - n)
      BY <2>1 DEF Child, WithCount
    <3> QED
      BY <3>1, WithRefs
  <2>4. HeldBy(m, s, P, Q, w) = HeldBy(k, s, P, Q, w)
    BY <2>3 DEF HeldBy, Bit
  <2>5. ChildOK(m, s, P, Q, w)
    BY <2>3, <2>4 DEF ChildOK
  <2>6. m.refs # -1
    BY <2>3 DEF HeldBy, Bit
  <2> QED
    BY <2>2, <2>3, <2>5, <2>6 DEF Moves
<1> QED
  BY <1>1, <1>2

\* Fields that say nothing of references may change while the child is not pending.
LEMMA SameMoves ==
  ASSUME NEW k, NEW m \in Child, NEW s, NEW P, NEW Q, NEW w \in Nat, ChildOK(k, s, P, Q, w),
         s \notin P, k # Free, (m.qp <=> k.qp),
         m.remote = k.remote, m.refs = k.refs, m.owner = k.owner, (m.table <=> k.table),
         (m.timer <=> k.timer), (m.rejected <=> k.rejected)
  PROVE  Moves(k, m, s, P, Q, w)
<1>1. HeldBy(m, s, P, Q, w) = HeldBy(k, s, P, Q, w)
  BY DEF HeldBy, Bit
<1> QED
  BY <1>1 DEF ChildOK, Moves, Overput

\* A packet finds the child in the connected table.
LEMMA GotMoves ==
  ASSUME NEW k, NEW s, NEW P, NEW Q, NEW w \in Nat, ChildOK(k, s, P, Q, w), k.table
  PROVE  Moves(k, [k EXCEPT !.refs = @ + 1], s, P, Q, w + 1)
<1>1. PICK m : m = [k EXCEPT !.refs = @ + 1]
  OBVIOUS
<1>2. /\ m \in Child /\ m.refs = k.refs + 1 /\ m.remote = k.remote /\ m.state = k.state
      /\ m.owner = k.owner /\ (m.table <=> k.table) /\ (m.timer <=> k.timer) /\ (m.qp <=> k.qp)
      /\ (m.rejected <=> k.rejected)
  <2>1. k \in Child /\ k.refs + 1 \in Int
    BY DEF ChildOK, Child
  <2>2. m = WithCount(k, k.refs + 1)
    BY <1>1 DEF WithCount
  <2> QED
    BY <2>1, <2>2, WithRefs, SMTT(30)
<1>3. s \notin P /\ k # Free /\ k.remote \in Clients
  BY FreeIsChild DEF ChildOK
<1>4. HeldBy(k, s, P, Q, w) \in Nat /\ HeldBy(k, s, P, Q, w) > 0
  BY DEF HeldBy, Bit
<1>5. k.refs = HeldBy(k, s, P, Q, w) /\ k.qp
  BY <1>4 DEF ChildOK, Overput
<1>6. HeldBy(m, s, P, Q, w + 1) = HeldBy(k, s, P, Q, w) + 1
  BY <1>2 DEF HeldBy, Bit
<1>7. ChildOK(m, s, P, Q, w + 1)
  BY <1>2, <1>3, <1>5, <1>6 DEF ChildOK
<1>8. m.refs # -1
  BY <1>2, <1>4, <1>5
<1> QED
  BY <1>1, <1>2, <1>7, <1>8 DEF Moves

\* A work on the child is done.
LEMMA WorkedMoves ==
  ASSUME NEW k, NEW m \in Child, NEW s, NEW P, NEW Q, NEW w \in Nat, ChildOK(k, s, P, Q, w), w # 0,
         m.remote = k.remote, m.refs = k.refs, m.owner = k.owner, (m.table <=> k.table),
         (m.timer <=> k.timer), (m.rejected <=> k.rejected), (m.qp <=> k.qp)
  PROVE  Moves(k, Put(m, 1), s, P, Q, w - 1)
<1>1. s \notin P /\ k # Free
  BY FreeIsHeldByNobody DEF ChildOK
<1>2. HeldBy(k, s, P, Q, w) \in Nat /\ HeldBy(k, s, P, Q, w) > 0
  BY DEF HeldBy, Bit
<1>3. k.refs = HeldBy(k, s, P, Q, w) /\ k.remote \in Clients /\ m.qp
  BY <1>1, <1>2 DEF ChildOK, Overput
<1>4. HeldBy(m, s, P, Q, w - 1) = HeldBy(k, s, P, Q, w) - 1
  BY DEF HeldBy, Bit
<1>5. w - 1 \in Nat
  OBVIOUS
<1>6. Moves(m, Put(m, 1), s, P, Q, w - 1) /\ Put(m, 1).refs # -1
  BY <1>1, <1>3, <1>4, <1>5, PutMoves DEF ChildOK
<1> QED
  BY <1>6 DEF Moves

\* The listener makes a child.
LEMMA NewMoves ==
  ASSUME NEW s, NEW P, NEW Q, NEW w \in Nat, ChildOK(Free, s, P, Q, w), NEW c \in Clients,
         NEW P2, s \in P2
  PROVE  ChildOK(NewChild(c), s, P2, Q, w)
<1>1. s \notin Q /\ w = 0
  BY FreeIsHeldByNobody
<1>2. PICK m : m = NewChild(c)
  OBVIOUS
<1>3. /\ m \in Child /\ m.remote = c /\ m.state = "connecting" /\ m.refs = 3 /\ m.owner = "kernel"
      /\ m.timer /\ ~m.table /\ ~m.rejected /\ ~m.qp
  <2>1. m = [remote |-> c, state |-> "connecting", refs |-> 3, table |-> FALSE, owner |-> "kernel",
             rejected |-> FALSE, timer |-> TRUE, qp |-> FALSE, peerShutdown |-> FALSE]
    BY <1>2 DEF NewChild, Free
  <2> QED
    BY <2>1 DEF Child, State
<1>4. HeldBy(m, s, P2, Q, w) = 3
  BY <1>1, <1>3 DEF HeldBy, Bit
<1> QED
  BY <1>1, <1>2, <1>3, <1>4 DEF ChildOK

AttachedChild(k) == [k EXCEPT !.state = "connected", !.qp = TRUE, !.table = TRUE, !.refs = @ + 1]
GivenUp(k) == [k EXCEPT !.state = "unconnected", !.owner = "none"]
TimedOut(k) == [k EXCEPT !.timer = FALSE, !.table = FALSE, !.state = "free", !.owner = "none"]

\* A pending child attaches and goes to the accept queue.
LEMMA AttachMoves ==
  ASSUME NEW k, NEW s, NEW P, NEW Q, NEW w \in Nat, ChildOK(k, s, P, Q, w), s \in P,
         k.state = "connecting", NEW P2, s \notin P2, NEW Q2, s \in Q2,
         NEW m, m = AttachedChild(k)
  PROVE  Moves(k, m, s, P2, Q2, w)
<1>1. /\ k \in Child /\ s \notin Q /\ w = 0 /\ k.owner = "kernel" /\ k.timer /\ ~k.table /\ ~k.rejected
      /\ k # Free /\ k.remote \in Clients
  BY FreeIsHeldByNobody DEF ChildOK
<1>2. k.refs = 3
  BY <1>1 DEF ChildOK, Overput, HeldBy, Bit
<1>3. /\ m \in Child /\ m.refs = 4 /\ m.remote = k.remote /\ m.owner = k.owner /\ m.table /\ m.qp
      /\ (m.timer <=> k.timer) /\ (m.rejected <=> k.rejected)
  <2>1. PICK z : z = [k EXCEPT !.state = "connected", !.qp = TRUE, !.table = TRUE]
    OBVIOUS
  <2>2. /\ z \in Child /\ z.refs = 3 /\ z.remote = k.remote /\ z.owner = k.owner /\ z.table /\ z.qp
        /\ (z.timer <=> k.timer) /\ (z.rejected <=> k.rejected)
    BY <1>1, <1>2, <2>1 DEF Child, State
  <2>3. m = WithCount(z, 4)
    BY <1>1, <1>2, <2>1 DEF Child, WithCount, AttachedChild
  <2> QED
    BY <2>2, <2>3, WithRefs, SMTT(30)
<1>4. HeldBy(m, s, P2, Q2, w) = 4
  BY <1>1, <1>3 DEF HeldBy, Bit
<1>5. ChildOK(m, s, P2, Q2, w)
  BY <1>1, <1>3, <1>4 DEF ChildOK
<1> QED
  BY <1>3, <1>5 DEF Moves

\* A pending child that is connecting is given up.
LEMMA FailMoves ==
  ASSUME NEW k, NEW s, NEW P, NEW Q, NEW w \in Nat, ChildOK(k, s, P, Q, w), s \in P,
         k.state = "connecting", NEW n \in {1, 2}, NEW P2, s \in P2 <=> n = 1,
         NEW m, m = GivenUp(k)
  PROVE  Moves(k, Put(m, n), s, P2, Q, w)
<1>1. /\ k \in Child /\ s \notin Q /\ w = 0 /\ k.owner = "kernel" /\ k.timer /\ ~k.table /\ ~k.rejected
      /\ k # Free /\ k.remote \in Clients /\ ~k.qp
  BY FreeIsHeldByNobody DEF ChildOK
<1>2. k.refs = 3
  BY <1>1 DEF ChildOK, Overput, HeldBy, Bit
<1>3. /\ m \in Child /\ m.refs = 3 /\ m.remote = k.remote /\ m.owner = "none" /\ ~m.table
      /\ m.timer /\ ~m.rejected /\ ~m.qp /\ m.state = "unconnected"
  BY <1>1, <1>2 DEF Child, State, GivenUp
<1>4. m.refs - n = HeldBy(m, s, P2, Q, w)
  BY <1>1, <1>3 DEF HeldBy, Bit
<1>5. /\ m \in Child /\ n \in Nat /\ m.remote \in Clients
      /\ s \in P2 =>
           /\ m.timer /\ ~m.qp /\ ~m.table /\ ~m.rejected /\ s \notin Q /\ w = 0
           /\ \/ m.state = "connecting" /\ m.owner = "kernel"
              \/ m.state = "unconnected" /\ m.owner = "none"
      /\ s \in Q => m.owner = "kernel" /\ ~m.rejected
      /\ m.rejected /\ m.timer => m.owner = "kernel"
      /\ m.qp \/ (~m.table /\ s \notin Q /\ w = 0)
  BY <1>1, <1>3
<1>6. Moves(m, Put(m, n), s, P2, Q, w) /\ Put(m, n).refs # -1
  BY <1>4, <1>5, PutMoves
<1> QED
  BY <1>3, <1>6 DEF Moves, Stray

\* A pending child that was given up before is taken off the list.
LEMMA StaleMoves ==
  ASSUME NEW k, NEW s, NEW P, NEW Q, NEW w \in Nat, ChildOK(k, s, P, Q, w), s \in P,
         k.state # "connecting", NEW P2, s \notin P2
  PROVE  Moves(k, Put(k, 1), s, P2, Q, w)
<1>1. /\ k \in Child /\ s \notin Q /\ w = 0 /\ k.owner = "none" /\ k.timer /\ ~k.table /\ ~k.rejected
      /\ k # Free /\ k.remote \in Clients
  BY FreeIsHeldByNobody DEF ChildOK
<1>2. k.refs = 2
  BY <1>1 DEF ChildOK, Overput, HeldBy, Bit
<1>3. k.refs - 1 = HeldBy(k, s, P2, Q, w)
  BY <1>1, <1>2 DEF HeldBy, Bit
<1> QED
  BY <1>1, <1>3, PutMoves

\* The timer of a pending child: the kernel's reference goes with it, and was put
\* before if a reset had come.
LEMMA TimerMoves ==
  ASSUME NEW k, NEW s, NEW P, NEW Q, NEW w \in Nat, ChildOK(k, s, P, Q, w), k.timer, s \in P,
         NEW P2, s \notin P2,
         NEW m, m = TimedOut(k)
  PROVE  Moves(k, Put(m, 3), s, P2, Q, w)
<1>1. /\ k \in Child /\ s \notin Q /\ w = 0 /\ ~k.table /\ ~k.rejected
      /\ k # Free /\ k.remote \in Clients /\ ~k.qp
      /\ (k.owner = "kernel" \/ k.owner = "none")
  BY FreeIsHeldByNobody DEF ChildOK
<1>2. k.refs = IF k.owner = "kernel" THEN 3 ELSE 2
  BY <1>1 DEF ChildOK, Overput, HeldBy, Bit
<1>3. /\ m \in Child /\ m.refs = k.refs /\ m.remote = k.remote /\ m.owner = "none" /\ ~m.table
      /\ ~m.timer /\ (m.rejected <=> k.rejected) /\ ~m.qp
  BY <1>1 DEF Child, State, TimedOut
<1>4. HeldBy(m, s, P2, Q, w) = 0
  BY <1>1, <1>3 DEF HeldBy, Bit
<1>5. CASE k.owner = "kernel"
  <2>1. m.refs - 3 = HeldBy(m, s, P2, Q, w)
    BY <1>2, <1>3, <1>4, <1>5
  <2>2. Moves(m, Put(m, 3), s, P2, Q, w) /\ Put(m, 3).refs # -1
    BY <1>1, <1>3, <2>1, PutMoves
  <2> QED
    BY <1>3, <2>2 DEF Moves
<1>6. CASE k.owner = "none"
  <2>1. PICK z : z = [m EXCEPT !.refs = -1]
    OBVIOUS
  <2>2. Put(m, 3) = z
    <3>1. m.refs = 2 /\ m.refs - 3 = -1
      BY <1>2, <1>3, <1>6
    <3>2. Put(m, 3) = [m EXCEPT !.refs = m.refs - 3]
      BY <3>1 DEF Put
    <3> QED
      BY <2>1, <3>1, <3>2
  <2>3. /\ z \in Child /\ z.refs = -1 /\ z.remote = k.remote /\ z.owner = m.owner /\ (z.table <=> m.table)
        /\ (z.timer <=> m.timer) /\ (z.rejected <=> m.rejected) /\ (z.qp <=> m.qp)
    <3>1. -1 \in Int /\ z = WithCount(m, -1)
      BY <2>1 DEF WithCount
    <3> QED
      BY <1>3, <3>1, WithRefs
  <2>4. HeldBy(z, s, P2, Q, w) = 0
    BY <1>4, <2>3 DEF HeldBy, Bit
  <2>5. ChildOK(z, s, P2, Q, w)
    BY <1>1, <1>3, <2>3, <2>4 DEF ChildOK, Overput
  <2>6. Stray(k)
    BY <1>1, <1>2, <1>6 DEF Stray
  <2> QED
    BY <1>3, <2>2, <2>3, <2>5, <2>6 DEF Moves
<1> QED
  BY <1>1, <1>5, <1>6

\* The timer of a child that is not pending: one that accept has rejected is put by
\* its owner, the kernel, and leaves the table.
LEMMA LateTimerMoves ==
  ASSUME NEW k, NEW s, NEW P, NEW Q, NEW w \in Nat, ChildOK(k, s, P, Q, w), k.timer, s \notin P
  PROVE  IF k.rejected
         THEN Moves(k, Put(TimedOut(k), 2 + Bit(k.table)), s, P, Q, w)
         ELSE Moves(k, Put([k EXCEPT !.timer = FALSE], 1), s, P, Q, w)
<1>1. k \in Child /\ k # Free /\ k.remote \in Clients
  BY DEF ChildOK, Free
<1>2. HeldBy(k, s, P, Q, w) \in Nat /\ HeldBy(k, s, P, Q, w) > 0
  BY DEF HeldBy, Bit
<1>3. k.refs = HeldBy(k, s, P, Q, w)
  BY <1>2 DEF ChildOK, Overput
<1>4. CASE k.rejected
  <2>1. PICK m : m = TimedOut(k)
    OBVIOUS
  <2>2. /\ m \in Child /\ m.refs = k.refs /\ m.remote = k.remote /\ m.owner = "none" /\ ~m.table
        /\ ~m.timer /\ (m.rejected <=> k.rejected) /\ (m.qp <=> k.qp)
    BY <1>1, <2>1 DEF Child, State, TimedOut
  <2>3. s \notin Q /\ k.owner = "kernel" /\ (k.qp \/ w = 0)
    BY <1>4 DEF ChildOK
  <2>4. m.refs - (2 + Bit(k.table)) = HeldBy(m, s, P, Q, w)
    BY <1>3, <2>2, <2>3 DEF HeldBy, Bit
  <2>5. 2 + Bit(k.table) \in Nat
    BY DEF Bit
  <2>6. Moves(m, Put(m, 2 + Bit(k.table)), s, P, Q, w) /\ Put(m, 2 + Bit(k.table)).refs # -1
    BY <1>1, <2>2, <2>3, <2>4, <2>5, PutMoves
  <2> QED
    BY <1>4, <2>1, <2>2, <2>6 DEF Moves
<1>5. CASE ~k.rejected
  <2>1. PICK m : m = [k EXCEPT !.timer = FALSE]
    OBVIOUS
  <2>2. /\ m \in Child /\ m.refs = k.refs /\ m.remote = k.remote /\ m.owner = k.owner /\ (m.table <=> k.table)
        /\ ~m.timer /\ (m.rejected <=> k.rejected) /\ (m.qp <=> k.qp)
    BY <1>1, <2>1 DEF Child
  <2>3. (s \in Q => k.owner = "kernel") /\ (k.qp \/ (~k.table /\ s \notin Q /\ w = 0))
    BY DEF ChildOK
  <2>4. m.refs - 1 = HeldBy(m, s, P, Q, w)
    BY <1>3, <2>2 DEF HeldBy, Bit
  <2>5. Moves(m, Put(m, 1), s, P, Q, w) /\ Put(m, 1).refs # -1
    BY <1>1, <1>5, <2>2, <2>3, <2>4, PutMoves
  <2> QED
    BY <1>5, <2>1, <2>2, <2>5 DEF Moves
<1> QED
  BY <1>4, <1>5

\* A child leaves the accept queue: for a user, or rejected.
LEMMA AcceptMoves ==
  ASSUME NEW k, NEW s, NEW P, NEW Q, NEW w \in Nat, ChildOK(k, s, P, Q, w), s \in Q,
         NEW Q2, s \notin Q2,
         NEW m, m = [k EXCEPT !.rejected = TRUE] \/ m = [k EXCEPT !.owner = "user"]
  PROVE  Moves(k, Put(m, 1), s, P, Q2, w)
<1>1. /\ k \in Child /\ k # Free /\ k.remote \in Clients /\ s \notin P /\ k.owner = "kernel" /\ ~k.rejected
      /\ k.qp
  BY FreeIsHeldByNobody DEF ChildOK
<1>2. HeldBy(k, s, P, Q, w) \in Nat /\ HeldBy(k, s, P, Q, w) > 0
  BY DEF HeldBy, Bit
<1>3. k.refs = HeldBy(k, s, P, Q, w)
  BY <1>2 DEF ChildOK, Overput
<1>4. /\ m \in Child /\ m.refs = k.refs /\ m.remote = k.remote /\ (m.table <=> k.table) /\ (m.timer <=> k.timer)
      /\ m.owner # "none" /\ (m.rejected => m.owner = "kernel") /\ (m.qp <=> k.qp)
  BY <1>1 DEF Child
<1>5. m.refs - 1 = HeldBy(m, s, P, Q2, w)
  BY <1>1, <1>3, <1>4 DEF HeldBy, Bit
<1>6. Moves(m, Put(m, 1), s, P, Q2, w) /\ Put(m, 1).refs # -1
  BY <1>1, <1>4, <1>5, PutMoves
<1> QED
  BY <1>4, <1>6 DEF Moves

\* The socket of a child goes: a user's, or one in the accept queue.
LEMMA ReleaseMoves ==
  ASSUME NEW k, NEW s, NEW P, NEW Q, NEW w \in Nat, ChildOK(k, s, P, Q, w),
         k.owner # "none", s \notin P, ~(k.rejected /\ k.timer),
         NEW Q2, s \notin Q2, NEW e, e = Bit(s \in Q)
  PROVE  Moves(k, Put(Release(k, e).child, Release(k, e).drops), s, P, Q2, w)
<1>1. k \in Child /\ k # Free /\ k.remote \in Clients
  BY DEF ChildOK, Free
<1>2. HeldBy(k, s, P, Q, w) \in Nat /\ HeldBy(k, s, P, Q, w) > 0
  BY DEF HeldBy, Bit
<1>3. k.refs = HeldBy(k, s, P, Q, w) /\ (k.qp \/ w = 0)
  BY <1>2 DEF ChildOK, Overput
<1>4. PICK m : m = [k EXCEPT !.table = FALSE, !.owner = "none"]
  OBVIOUS
<1>5. PICK n : n = e + (IF k.table THEN 2 ELSE 1)
  OBVIOUS
<1>6. Release(k, e).child = m /\ Release(k, e).drops = n
  BY <1>4, <1>5 DEF Release
<1>7. n \in Nat
  BY <1>5 DEF Bit
<1>8. /\ m \in Child /\ m.refs = k.refs /\ m.remote = k.remote /\ ~m.table /\ (m.timer <=> k.timer)
      /\ m.owner = "none" /\ (m.rejected <=> k.rejected) /\ (m.qp <=> k.qp)
  BY <1>1, <1>4 DEF Child
<1>9. m.refs - n = HeldBy(m, s, P, Q2, w)
  BY <1>3, <1>5, <1>8 DEF HeldBy, Bit
<1>10. m.remote \in Clients /\ ~(m.rejected /\ m.timer) /\ (m.qp \/ (~m.table /\ s \notin Q2 /\ w = 0))
  BY <1>1, <1>3, <1>8
<1>11. Moves(m, Put(m, n), s, P, Q2, w) /\ Put(m, n).refs # -1
  BY <1>7, <1>8, <1>9, <1>10, PutMoves
<1> QED
  BY <1>6, <1>8, <1>11 DEF Moves

-----------------------------------------------------------------------------
(* The listener's side: types, lists, works and children *)

Pending == Range(listener.pending)
Queued == Range(listener.acceptQueue)

\* How many works are on s.
W(s) == Cardinality(WorksIn(serverWork, s))

Finite == \A s \in Children : IsFiniteSet(WorksIn(serverWork, s))

Family == \A s \in Children : ChildOK(child[s], s, Pending, Queued, W(s))

\* A work is on a child of the client that sent the packet.
WorksMatch ==
  \A c \in Clients : \A i \in DOMAIN serverWork[c] :
    serverWork[c][i].on \in Children => child[serverWork[c][i].on].remote = c

\* A socket is on a list once, and a client has one pending child.
Lists ==
  /\ NoRepetition(listener.pending) /\ NoRepetition(listener.acceptQueue)
  /\ \A s, t \in Pending : child[s].remote = child[t].remote => s = t

ServerInv == HandshakeTypeOK /\ Finite /\ Family /\ WorksMatch /\ Lists

LEMMA Typed ==
  ASSUME HandshakeTypeOK
  PROVE  /\ client \in [Clients -> Client] /\ child \in [Children -> Child]
         /\ listener.open \in BOOLEAN /\ listener.failed \in BOOLEAN /\ listener.backlog \in Int
         /\ listener.pending \in Seq(Children) /\ listener.acceptQueue \in Seq(Children)
         /\ toServer \in [Clients -> Seq(Packet)] /\ toClient \in [Clients -> Seq(Packet)]
         /\ serverWork \in [Clients -> Seq(Work)] /\ clientWork \in [Clients -> Seq(Packet)]
         /\ Pending \subseteq Children /\ Queued \subseteq Children
<1>1. /\ listener.pending \in Seq(Children) /\ listener.acceptQueue \in Seq(Children)
  BY DEF HandshakeTypeOK
<1>2. Pending \subseteq Children /\ Queued \subseteq Children
  BY <1>1, RangeOfSeq DEF Pending, Queued
<1> QED
  BY <1>1, <1>2 DEF HandshakeTypeOK, Work

\* A work has a packet, and is on a child or on the listener.
LEMMA WorkIs ==
  ASSUME HandshakeTypeOK, NEW c \in Clients, NEW i \in DOMAIN serverWork[c]
  PROVE  /\ serverWork[c][i] \in Work
         /\ serverWork[c][i].type \in Packet
         /\ serverWork[c][i].on \in Children \cup {Listener}
         /\ serverWork[c][i] \in Range(serverWork[c])
<1>1. serverWork[c] \in Seq(Work)
  BY Typed
<1>2. serverWork[c][i] \in Work
  BY <1>1, LenProperties, ElementOfSeq
<1>3. serverWork[c][i] \in Range(serverWork[c])
  BY DEF Range
<1> QED
  BY <1>2, <1>3 DEF Work

LEMMA NewsIsPackets ==
  /\ \A type \in Packet : Reset(type) \in Seq(Packet) /\ Range(Reset(type)) \subseteq {"RST"}
  /\ \A k, n : /\ Farewell(k, n) \in Seq(Packet)
               /\ Range(Farewell(k, n)) = IF k.refs = n /\ k.qp THEN {"DETACH"} ELSE {}
  /\ \A k, works : /\ ClientFarewell(k, works) \in Seq(Packet)
                   /\ Range(ClientFarewell(k, works)) =
                        IF ~k.open /\ works = <<>> /\ k.qp THEN {"DETACH"} ELSE {}
<1>1. <<>> \in Seq(Packet) /\ Range(<<>>) = {}
  BY EmptySeq DEF Range
<1>2. <<"RST">> \in Seq(Packet) /\ Range(<<"RST">>) = {"RST"}
  BY DEF Range, Packet
<1>3. <<"DETACH">> \in Seq(Packet) /\ Range(<<"DETACH">>) = {"DETACH"}
  BY DEF Range, Packet
<1>4. ASSUME NEW type \in Packet PROVE Reset(type) \in Seq(Packet) /\ Range(Reset(type)) \subseteq {"RST"}
  BY <1>1, <1>2 DEF Reset
<1>5. ASSUME NEW k, NEW n
      PROVE /\ Farewell(k, n) \in Seq(Packet)
            /\ Range(Farewell(k, n)) = IF k.refs = n /\ k.qp THEN {"DETACH"} ELSE {}
  BY <1>1, <1>3 DEF Farewell
<1>6. ASSUME NEW k, NEW works
      PROVE /\ ClientFarewell(k, works) \in Seq(Packet)
            /\ Range(ClientFarewell(k, works)) = IF ~k.open /\ works = <<>> /\ k.qp THEN {"DETACH"} ELSE {}
  BY <1>1, <1>3 DEF ClientFarewell
<1> QED
  BY <1>4, <1>5, <1>6

Told(f, c, x) == [f EXCEPT ![c] = @ \o x]
SentOne(f, c, x) == [f EXCEPT ![c] = Append(@, x)]
Arrived(f, c) == [f EXCEPT ![c] = Tail(@)]

\* R are the new packets to or from client c.
News(f, g, c, R) ==
  /\ g \in [Clients -> Seq(Packet)]
  /\ Range(g[c]) = Range(f[c]) \cup R
  /\ \A d \in Clients : d # c => g[d] = f[d]

\* What is sent is added to what is under way.
LEMMA SendIs ==
  ASSUME NEW f \in [Clients -> Seq(Packet)], NEW c \in Clients, NEW x \in Seq(Packet),
         NEW g, g = Told(f, c, x)
  PROVE  News(f, g, c, Range(x))
<1>1. f[c] \in Seq(Packet)
  OBVIOUS
<1>2. f[c] \o x \in Seq(Packet) /\ Range(f[c] \o x) = Range(f[c]) \cup Range(x)
  BY <1>1, ConcatProperties, RangeConcatenation
<1>3. g[c] = f[c] \o x /\ \A d \in Clients : d # c => g[d] = f[d]
  BY DEF Told
<1>4. g \in [Clients -> Seq(Packet)]
  BY <1>2 DEF Told
<1> QED
  BY <1>2, <1>3, <1>4 DEF News

LEMMA SendOneIs ==
  ASSUME NEW f \in [Clients -> Seq(Packet)], NEW c \in Clients, NEW x \in Packet,
         NEW g, g = SentOne(f, c, x)
  PROVE  News(f, g, c, {x})
<1>1. f[c] \in Seq(Packet)
  OBVIOUS
<1>2. Append(f[c], x) \in Seq(Packet) /\ Range(Append(f[c], x)) = Range(f[c]) \cup {x}
  BY <1>1, AppendRange
<1>3. g[c] = Append(f[c], x) /\ \A d \in Clients : d # c => g[d] = f[d]
  BY DEF SentOne
<1>4. g \in [Clients -> Seq(Packet)]
  BY <1>2 DEF SentOne
<1> QED
  BY <1>2, <1>3, <1>4 DEF News

\* The first packet has left.
Rest(f, g, c) ==
  /\ g \in [Clients -> Seq(Packet)] /\ Head(f[c]) \in Packet
  /\ Range(f[c]) = Range(g[c]) \cup {Head(f[c])}
  /\ \A d \in Clients : d # c => g[d] = f[d]

\* What has arrived is under way no more.
LEMMA ArriveIs ==
  ASSUME NEW f \in [Clients -> Seq(Packet)], NEW c \in Clients, f[c] # <<>>,
         NEW g, g = Arrived(f, c)
  PROVE  Rest(f, g, c)
<1>1. f[c] \in Seq(Packet)
  OBVIOUS
<1>2. /\ Head(f[c]) \in Packet /\ Tail(f[c]) \in Seq(Packet)
      /\ Range(f[c]) = Range(Tail(f[c])) \cup {Head(f[c])}
  BY <1>1, TailRange
<1>3. g[c] = Tail(f[c]) /\ \A d \in Clients : d # c => g[d] = f[d]
  BY DEF Arrived
<1>4. g \in [Clients -> Seq(Packet)]
  BY <1>2 DEF Arrived
<1> QED
  BY <1>2, <1>3, <1>4 DEF Rest

\* What a step does not touch stays as it was.
LEMMA StillMoves ==
  ASSUME NEW k, NEW s, NEW P, NEW Q, NEW w \in Nat, ChildOK(k, s, P, Q, w),
         NEW P2, NEW Q2, s \in P2 <=> s \in P, s \in Q2 <=> s \in Q
  PROVE  Moves(k, k, s, P2, Q2, w)
<1>1. HeldBy(k, s, P2, Q2, w) = HeldBy(k, s, P, Q, w)
  BY DEF HeldBy, Bit
<1> QED
  BY <1>1 DEF ChildOK, Moves, Overput

LEMMA WIsNat ==
  ASSUME Finite
  PROVE  \A s \in Children : W(s) \in Nat
  BY FS_CardinalityType DEF Finite, W

\* A child that was put too often was stray, or had been put too often before.
CountStep == \A s \in Children : child'[s].refs = -1 => child[s].refs = -1 \/ Stray(child[s])

\* The children and their works after a step: each child has moved, or is new.
LEMMA FamilyStep ==
  ASSUME ServerInv,
         client' \in [Clients -> Client], child' \in [Children -> Child],
         listener' \in [open : BOOLEAN, failed : BOOLEAN, pending : Seq(Children),
                        acceptQueue : Seq(Children), backlog : Int],
         toServer' \in [Clients -> Seq(Packet)], toClient' \in [Clients -> Seq(Packet)],
         serverWork' \in [Clients -> Seq(Work)], clientWork' \in [Clients -> Seq(Packet)],
         Finite', NoRepetition(listener'.pending), NoRepetition(listener'.acceptQueue),
         \A s \in Children : Moves(child[s], child'[s], s, Pending', Queued', W(s)'),
         Pending' \subseteq Pending,
         \A c \in Clients : \A x \in Range(serverWork'[c]) :
            x \in Range(serverWork[c]) \/ (x.on \in Children => child[x.on].remote = c)
  PROVE  ServerInv' /\ CountStep
<1>1. HandshakeTypeOK'
  BY DEF HandshakeTypeOK, Work
<1>2. Family'
  BY DEF Family, Moves
<1>3. WorksMatch'
  <2> SUFFICES ASSUME NEW c \in Clients, NEW i \in DOMAIN serverWork'[c], serverWork'[c][i].on \in Children
               PROVE  child'[serverWork'[c][i].on].remote = c
    BY DEF WorksMatch
  <2>1. PICK x : x = serverWork'[c][i]
    OBVIOUS
  <2>2. PICK s \in Children : s = x.on
    BY <2>1
  <2>3. x \in Range(serverWork'[c])
    BY <2>1 DEF Range
  <2>4. child[s].remote = c
    <3>1. CASE x \in Range(serverWork[c])
      <4>1. PICK j \in DOMAIN serverWork[c] : x = serverWork[c][j]
        BY <3>1 DEF Range
      <4> QED
        BY <4>1, <2>2 DEF ServerInv, WorksMatch
    <3>2. CASE x.on \in Children => child[x.on].remote = c
      BY <3>2, <2>2
    <3> QED
      BY <3>1, <3>2, <2>3
  <2>5. W(s)' # 0
    <3>1. serverWork'[c] \in Seq(Work)
      OBVIOUS
    <3>2. i \in Nat
      BY <3>1, LenProperties
    <3>3. <<c, i>> \in WorksIn(serverWork', s)
      BY <2>1, <2>2, <3>2 DEF WorksIn
    <3>4. IsFiniteSet(WorksIn(serverWork', s))
      BY DEF Finite
    <3> QED
      BY <3>3, <3>4, FS_EmptySet DEF W
  <2>6. child'[s].remote = child[s].remote
    BY <2>5 DEF Moves
  <2> QED
    BY <2>1, <2>2, <2>4, <2>6
<1>4. Lists'
  <2>1. \A s \in Pending' : s \in Pending /\ child'[s].remote = child[s].remote
    <3> TAKE s \in Pending'
    <3>1. s \in Pending /\ s \in Children
      BY Typed DEF ServerInv
    <3> QED
      BY <3>1 DEF Moves
  <2> QED
    BY <2>1 DEF ServerInv, Lists
<1>5. CountStep
  BY DEF CountStep, Moves
<1> QED
  BY <1>1, <1>2, <1>3, <1>4, <1>5 DEF ServerInv

-----------------------------------------------------------------------------
(* What a step of the listener's side means to the clients *)

\* The ends of connections on this side, what they and the clients know of each
\* other, and what is said when an end comes or goes.
ServerStep ==
  /\ UNCHANGED <<client, clientWork>>
  /\ \A c \in Clients :
       /\ Range(toClient[c]) \subseteq Range(toClient'[c])
       /\ "ATTACH" \in Range(toClient'[c]) =>
            \/ "ATTACH" \in Range(toClient[c])
            \/ \E s \in Children : child'[s].qp /\ child'[s].remote = c
       /\ "DETACH" \in Range(toClient'[c]) =>
            \/ "DETACH" \in Range(toClient[c])
            \/ \E s \in Children : child[s].qp /\ child[s].remote = c
       /\ "DETACH" \in Range(toServer[c]) =>
            \/ "DETACH" \in Range(toServer'[c])
            \/ \A s \in Children : child[s].qp /\ child[s].remote = c => child'[s].peerShutdown
  /\ \A s \in Children :
       /\ child'[s].qp =>
            /\ child'[s].remote = child[s].remote
            /\ \/ child[s].qp /\ (child[s].peerShutdown => child'[s].peerShutdown)
               \/ client[child[s].remote].qp /\ "ATTACH" \in Range(toClient'[child[s].remote])
       /\ child[s].qp /\ ~child'[s].qp => "DETACH" \in Range(toClient'[child[s].remote])

\* What is left of a child after a Put.
LEMMA PutIs ==
  ASSUME NEW k \in Child, NEW n \in Nat, NEW m, m = Put(k, n)
  PROVE  /\ m \in Child
         /\ m.qp => k.qp /\ m.remote = k.remote /\ (m.peerShutdown <=> k.peerShutdown)
         /\ k.qp /\ ~m.qp => k.refs = n
<1>1. CASE k.refs = n
  BY <1>1, FreeIsChild DEF Put
<1>2. CASE k.refs # n
  BY <1>2 DEF Put, Child
<1> QED
  BY <1>1, <1>2

\* A reply and a farewell are sent.
Answered(f, c, reply, k, n) == Told(f, c, reply \o Farewell(k, n))

LEMMA FarewellIs ==
  ASSUME NEW f \in [Clients -> Seq(Packet)], NEW c \in Clients, NEW k, NEW n,
         NEW reply \in Seq(Packet), NEW g, g = Answered(f, c, reply, k, n)
  PROVE  News(f, g, c, Range(reply) \cup (IF k.refs = n /\ k.qp THEN {"DETACH"} ELSE {}))
<1>1. Farewell(k, n) \in Seq(Packet) /\ Range(Farewell(k, n)) = IF k.refs = n /\ k.qp THEN {"DETACH"} ELSE {}
  BY NewsIsPackets
<1>2. /\ reply \o Farewell(k, n) \in Seq(Packet)
      /\ Range(reply \o Farewell(k, n)) = Range(reply) \cup Range(Farewell(k, n))
  BY <1>1, ConcatProperties, RangeConcatenation
<1>3. PICK x \in Seq(Packet) : Range(x) = Range(reply) \cup Range(Farewell(k, n)) /\ g = Told(f, c, x)
  BY <1>2 DEF Answered
<1>4. News(f, g, c, Range(x))
  BY <1>3, SendIs
<1>5. Range(x) = Range(reply) \cup (IF k.refs = n /\ k.qp THEN {"DETACH"} ELSE {})
  BY <1>1, <1>3
<1> QED
  BY <1>4, <1>5

WithChild(s, m) == [child EXCEPT ![s] = m]

\* A step that puts a child, after which its client is told the end and perhaps
\* that what it sent was of no use.
LEMMA OneChildStep ==
  ASSUME ServerInv, NEW c \in Clients, NEW s \in Children, child[s].remote = c,
         NEW k \in Child, k.remote = c, k.qp <=> child[s].qp, child[s].peerShutdown => k.peerShutdown,
         NEW n \in Nat, NEW m, m = Put(k, n),
         child' = WithChild(s, m),
         NEW reply \in Seq(Packet), Range(reply) \subseteq {"RST"},
         toClient' = Answered(toClient, c, reply, k, n),
         UNCHANGED <<client, toServer, clientWork>>
  PROVE  /\ child' \in [Children -> Child] /\ toClient' \in [Clients -> Seq(Packet)]
         /\ ServerStep
<1>1. child \in [Children -> Child] /\ toClient \in [Clients -> Seq(Packet)]
  BY Typed DEF ServerInv
<1>2. /\ m \in Child
      /\ m.qp => k.qp /\ m.remote = c /\ (m.peerShutdown <=> k.peerShutdown)
      /\ k.qp /\ ~m.qp => k.refs = n
  BY PutIs
<1>3. child' \in [Children -> Child] /\ child'[s] = m /\ \A t \in Children : t # s => child'[t] = child[t]
  BY <1>1, <1>2 DEF WithChild
<1>4. PICK g : g = Answered(toClient, c, reply, k, n)
  OBVIOUS
<1>5. News(toClient, g, c, Range(reply) \cup (IF k.refs = n /\ k.qp THEN {"DETACH"} ELSE {}))
  BY <1>1, <1>4, FarewellIs
<1>6. /\ toClient' \in [Clients -> Seq(Packet)]
      /\ \A d \in Clients : Range(toClient[d]) \subseteq Range(toClient'[d]) 
      /\ \A d \in Clients : \A x : x \in Range(toClient'[d]) => 
           x \in Range(toClient[d]) \cup {"RST"} \/ (d = c /\ k.qp /\ x = "DETACH")
      /\ k.refs = n /\ k.qp => "DETACH" \in Range(toClient'[c])
  BY <1>4, <1>5 DEF News
<1>7. ServerStep
  <2>1. \A t \in Children :
          /\ child'[t].qp =>
               /\ child'[t].remote = child[t].remote
               /\ child[t].qp /\ (child[t].peerShutdown => child'[t].peerShutdown)
          /\ child[t].qp /\ ~child'[t].qp => "DETACH" \in Range(toClient'[child[t].remote])
    BY <1>2, <1>3, <1>6, SMTT(30)
  <2>2. \A d \in Clients :
          /\ Range(toClient[d]) \subseteq Range(toClient'[d])
          /\ "ATTACH" \in Range(toClient'[d]) => "ATTACH" \in Range(toClient[d])
          /\ "DETACH" \in Range(toClient'[d]) =>
               "DETACH" \in Range(toClient[d]) \/ \E t \in Children : child[t].qp /\ child[t].remote = d
    BY <1>6
  <2> QED
    BY <2>1, <2>2 DEF ServerStep
<1> QED
  BY <1>3, <1>6, <1>7

\* A step that leaves the ends alone and sends a client something else.
LEMMA NoEndStep ==
  ASSUME ServerInv, NEW c \in Clients, NEW x \in Seq(Packet), Range(x) \subseteq {"RST", "NEGOTIATE"},
         \A s \in Children :
           child'[s].qp => child[s].qp /\ child'[s].remote = child[s].remote
                           /\ (child[s].peerShutdown => child'[s].peerShutdown),
         \A s \in Children : child[s].qp => child'[s].qp,
         \A d \in Clients : "DETACH" \in Range(toServer[d]) => "DETACH" \in Range(toServer'[d]),
         toClient' = Told(toClient, c, x),
         UNCHANGED <<client, clientWork>>
  PROVE  toClient' \in [Clients -> Seq(Packet)] /\ ServerStep
<1>1. toClient \in [Clients -> Seq(Packet)]
  BY Typed DEF ServerInv
<1>2. News(toClient, toClient', c, Range(x))
  BY <1>1, SendIs
<1>3. \A d \in Clients :
        /\ Range(toClient[d]) \subseteq Range(toClient'[d])
        /\ "ATTACH" \in Range(toClient'[d]) => "ATTACH" \in Range(toClient[d])
        /\ "DETACH" \in Range(toClient'[d]) => "DETACH" \in Range(toClient[d])
  BY <1>2 DEF News
<1> QED
  BY <1>2, <1>3 DEF News, ServerStep

\* The works after one has come.
LEMMA MoreW ==
  ASSUME ServerInv, NEW c \in Clients, NEW w \in Work,
         serverWork' = MoreWork(serverWork, c, w)
  PROVE  /\ serverWork' \in [Clients -> Seq(Work)] /\ Finite'
         /\ \A s \in Children : W(s)' = W(s) + (IF w.on = s THEN 1 ELSE 0) /\ W(s)' \in Nat
         /\ \A d \in Clients : \A x \in Range(serverWork'[d]) :
              x \in Range(serverWork[d]) \/ (d = c /\ x = w)
<1>1. serverWork \in [Clients -> Seq(Work)]
  BY Typed DEF ServerInv
<1>2. PICK g : g = MoreWork(serverWork, c, w)
  OBVIOUS
<1>3. ASSUME NEW s \in Children
      PROVE  /\ IsFiniteSet(WorksIn(g, s))
             /\ Cardinality(WorksIn(g, s)) = Cardinality(WorksIn(serverWork, s)) + (IF w.on = s THEN 1 ELSE 0)
  <2>1. IsFiniteSet(WorksIn(serverWork, s))
    BY DEF ServerInv, Finite
  <2> QED
    BY <1>1, <1>2, <2>1, MoreWorks
<1>4. Finite'
  BY <1>2, <1>3 DEF Finite
<1>5. serverWork' \in [Clients -> Seq(Work)] /\ Range(serverWork'[c]) = Range(serverWork[c]) \cup {w}
  <2>1. serverWork[c] \in Seq(Work) /\ serverWork'[c] = Append(serverWork[c], w)
    BY <1>1 DEF MoreWork
  <2>2. Append(serverWork[c], w) \in Seq(Work) /\ Range(Append(serverWork[c], w)) = Range(serverWork[c]) \cup {w}
    BY <2>1, AppendRange
  <2> QED
    BY <1>1, <2>1, <2>2 DEF MoreWork
<1>6. \A s \in Children : W(s)' = W(s) + (IF w.on = s THEN 1 ELSE 0)
  BY <1>2, <1>3 DEF W
<1>7. \A s \in Children : W(s)' \in Nat
  BY <1>6, WIsNat DEF ServerInv
<1> QED
  <2>1. \A d \in Clients : d # c => serverWork'[d] = serverWork[d]
    BY <1>1 DEF MoreWork, FewerWork
  <2> QED
    BY <2>1, <1>4, <1>5, <1>6, <1>7

\* The works after one is done.
LEMMA FewerW ==
  ASSUME ServerInv, NEW c \in Clients, NEW i \in DOMAIN serverWork[c],
         serverWork' = FewerWork(serverWork, c, i)
  PROVE  /\ serverWork' \in [Clients -> Seq(Work)] /\ Finite'
         /\ \A s \in Children :
              /\ W(s)' = W(s) - (IF serverWork[c][i].on = s THEN 1 ELSE 0) /\ W(s)' \in Nat
              /\ serverWork[c][i].on = s => W(s) # 0
         /\ \A d \in Clients : Range(serverWork'[d]) \subseteq Range(serverWork[d])
<1>1. serverWork \in [Clients -> Seq(Work)]
  BY Typed DEF ServerInv
<1>2. PICK g : g = FewerWork(serverWork, c, i)
  OBVIOUS
<1>3. ASSUME NEW s \in Children
      PROVE  /\ IsFiniteSet(WorksIn(g, s))
             /\ Cardinality(WorksIn(g, s)) =
                  Cardinality(WorksIn(serverWork, s)) - (IF serverWork[c][i].on = s THEN 1 ELSE 0)
             /\ serverWork[c][i].on = s => Cardinality(WorksIn(serverWork, s)) # 0
  <2>1. IsFiniteSet(WorksIn(serverWork, s))
    BY DEF ServerInv, Finite
  <2> QED
    BY <1>1, <1>2, <2>1, FewerWorks
<1>4. Finite'
  BY <1>2, <1>3 DEF Finite
<1>5. serverWork' \in [Clients -> Seq(Work)] /\ Range(serverWork'[c]) \subseteq Range(serverWork[c])
  <2>1. serverWork[c] \in Seq(Work) /\ serverWork'[c] = RemoveAt(serverWork[c], i)
    BY <1>1 DEF FewerWork
  <2>2. RemoveAt(serverWork[c], i) \in Seq(Work) /\ Range(RemoveAt(serverWork[c], i)) \subseteq Range(serverWork[c])
    BY <2>1, RemoveAtIs, RemoveAtRange
  <2> QED
    BY <1>1, <2>1, <2>2 DEF FewerWork
<1>6. \A s \in Children :
        /\ W(s)' = W(s) - (IF serverWork[c][i].on = s THEN 1 ELSE 0)
        /\ serverWork[c][i].on = s => W(s) # 0
  BY <1>2, <1>3 DEF W
<1>7. \A s \in Children : W(s)' \in Nat
  BY <1>2, <1>3, <1>4, FS_CardinalityType DEF Finite, W
<1> QED
  <2>1. \A d \in Clients : d # c => serverWork'[d] = serverWork[d]
    BY <1>1 DEF MoreWork, FewerWork
  <2> QED
    BY <2>1, <1>4, <1>5, <1>6, <1>7

-----------------------------------------------------------------------------
(* Something arrives at the listener's side *)

\* What the lists and works are when a step leaves them alone.
LEMMA StillListed ==
  ASSUME ServerInv, listener' = listener
  PROVE  /\ listener' \in [open : BOOLEAN, failed : BOOLEAN, pending : Seq(Children),
                           acceptQueue : Seq(Children), backlog : Int]
         /\ NoRepetition(listener'.pending) /\ NoRepetition(listener'.acceptQueue)
         /\ Pending' = Pending /\ Queued' = Queued
  BY DEF ServerInv, HandshakeTypeOK, Lists, Pending, Queued

LEMMA StillWorked ==
  ASSUME ServerInv, serverWork' = serverWork
  PROVE  /\ serverWork' \in [Clients -> Seq(Work)] /\ Finite'
         /\ \A s \in Children : W(s)' = W(s) /\ W(s) \in Nat
         /\ \A d \in Clients : Range(serverWork'[d]) \subseteq Range(serverWork[d])
  BY Typed, WIsNat DEF ServerInv, Finite, W

LEMMA StillPackets ==
  ASSUME ServerInv
  PROVE  /\ UNCHANGED client => client' \in [Clients -> Client]
         /\ UNCHANGED clientWork => clientWork' \in [Clients -> Seq(Packet)]
         /\ UNCHANGED toServer => toServer' \in [Clients -> Seq(Packet)]
         /\ UNCHANGED toClient => toClient' \in [Clients -> Seq(Packet)]
         /\ UNCHANGED child => child' \in [Children -> Child]
  BY Typed DEF ServerInv

LEMMA StillChild ==
  ASSUME ServerInv, NEW s \in Children, child'[s] = child[s],
         s \in Pending' <=> s \in Pending, s \in Queued' <=> s \in Queued, W(s)' = W(s)
  PROVE  Moves(child[s], child'[s], s, Pending', Queued', W(s)')
<1>1. ChildOK(child[s], s, Pending, Queued, W(s)) /\ W(s) \in Nat
  BY WIsNat DEF ServerInv, Family
<1>2. PICK k, P, Q, P2, Q2, w : k = child[s] /\ P = Pending /\ Q = Queued /\ P2 = Pending' /\ Q2 = Queued' /\ w = W(s)
  OBVIOUS
<1>3. Moves(k, k, s, P2, Q2, w)
  BY <1>1, <1>2, StillMoves
<1> QED
  BY <1>2, <1>3

\* The other end has gone.
LEMMA DetachArrives ==
  ASSUME ServerInv, NEW c \in Clients, toServer[c] # <<>>, Head(toServer[c]) = "DETACH",
         toServer' = Arrived(toServer, c), NEW data \in BOOLEAN,
         child' = [s \in Children |-> IF child[s].remote = c /\ child[s].qp THEN Detached(child[s], data)
                                      ELSE child[s]],
         UNCHANGED <<client, listener, toClient, serverWork, clientWork>>
  PROVE  ServerInv' /\ ServerStep /\ CountStep
<1>1. child \in [Children -> Child] /\ toServer \in [Clients -> Seq(Packet)]
  BY Typed DEF ServerInv
<1>2. /\ toServer' \in [Clients -> Seq(Packet)]
      /\ \A d \in Clients : d # c => toServer'[d] = toServer[d]
  <2>1. Rest(toServer, toServer', c)
    BY <1>1, ArriveIs
  <2> QED
    BY <2>1 DEF Rest
<1>3. /\ listener' \in [open : BOOLEAN, failed : BOOLEAN, pending : Seq(Children),
                        acceptQueue : Seq(Children), backlog : Int]
      /\ NoRepetition(listener'.pending) /\ NoRepetition(listener'.acceptQueue)
      /\ Pending' = Pending /\ Queued' = Queued
  BY StillListed
<1>4. /\ serverWork' \in [Clients -> Seq(Work)] /\ Finite'
      /\ \A s \in Children : W(s)' = W(s) /\ W(s) \in Nat
      /\ \A d \in Clients : Range(serverWork'[d]) \subseteq Range(serverWork[d])
  BY StillWorked
<1>5. ASSUME NEW s \in Children, child[s].remote = c, child[s].qp
      PROVE  /\ child'[s] \in Child /\ child'[s].qp /\ child'[s].peerShutdown
             /\ child'[s].remote = c /\ child'[s].refs = child[s].refs /\ child'[s].owner = child[s].owner
             /\ (child'[s].table <=> child[s].table) /\ (child'[s].timer <=> child[s].timer)
             /\ (child'[s].rejected <=> child[s].rejected)
  <2>1. PICK k, m : k = child[s] /\ m = child'[s]
    OBVIOUS
  <2>2. m = [k EXCEPT !.peerShutdown = TRUE, !.state = IF data THEN @ ELSE "unconnected"]
    BY <1>5, <2>1 DEF Detached
  <2>3. k \in Child
    BY <1>1, <2>1
  <2>4. /\ m \in Child /\ m.peerShutdown /\ m.remote = k.remote /\ m.refs = k.refs /\ m.owner = k.owner
        /\ (m.table <=> k.table) /\ (m.timer <=> k.timer) /\ (m.rejected <=> k.rejected)
        /\ (m.qp <=> k.qp)
    BY <2>2, <2>3 DEF Child, State
  <2> QED
    BY <1>5, <2>1, <2>4
<1>6. ASSUME NEW s \in Children, ~(child[s].remote = c /\ child[s].qp)
      PROVE  child'[s] = child[s]
  BY <1>6
<1>7. child' \in [Children -> Child]
  <2>1. child' = [s \in Children |-> child'[s]]
    OBVIOUS
  <2>2. \A s \in Children : child'[s] \in Child
    BY <1>1, <1>5, <1>6
  <2> QED
    BY <2>1, <2>2
<1>8. \A s \in Children : Moves(child[s], child'[s], s, Pending', Queued', W(s)')
  <2> TAKE s \in Children
  <2>1. CASE child[s].remote = c /\ child[s].qp
    <3>1. ChildOK(child[s], s, Pending, Queued, W(s))
      BY DEF ServerInv, Family
    <3>2. s \notin Pending /\ child[s] # Free
      BY <2>1, <3>1, FreeIsChild DEF ChildOK
    <3>3. PICK k, m, P, Q, w : k = child[s] /\ m = child'[s] /\ P = Pending /\ Q = Queued /\ w = W(s)
      OBVIOUS
    <3>4. Moves(k, m, s, P, Q, w)
      BY <1>4, <1>5, <2>1, <3>1, <3>2, <3>3, SameMoves
    <3> QED
      BY <1>3, <1>4, <3>3, <3>4
  <2>2. CASE ~(child[s].remote = c /\ child[s].qp)
    BY <1>3, <1>4, <1>6, <2>2, StillChild
  <2> QED
    BY <2>1, <2>2
<1>9. ServerStep
  BY <1>2, <1>5, <1>6 DEF ServerStep
<1>10. ServerInv' /\ CountStep
  BY <1>2, <1>3, <1>4, <1>7, <1>8, StillPackets, FamilyStep
<1> QED
  BY <1>9, <1>10

\* A packet finds a child in the connected table.
LEMMA PacketFindsChild ==
  ASSUME ServerInv, NEW c \in Clients, toServer[c] # <<>>, Head(toServer[c]) # "DETACH",
         toServer' = Arrived(toServer, c),
         NEW s \in Children, child[s].remote = c, child[s].table,
         child' = WithChild(s, [child[s] EXCEPT !.refs = @ + 1]),
         serverWork' = MoreWork(serverWork, c, [on |-> s, type |-> Head(toServer[c])]),
         UNCHANGED <<client, listener, toClient, clientWork>>
  PROVE  ServerInv' /\ ServerStep /\ CountStep
<1>1. child \in [Children -> Child] /\ toServer \in [Clients -> Seq(Packet)]
  BY Typed DEF ServerInv
<1>2. /\ toServer' \in [Clients -> Seq(Packet)] /\ Head(toServer[c]) \in Packet
      /\ Range(toServer[c]) = Range(toServer'[c]) \cup {Head(toServer[c])}
      /\ \A d \in Clients : d # c => toServer'[d] = toServer[d]
  <2>1. Rest(toServer, toServer', c)
    BY <1>1, ArriveIs
  <2> QED
    BY <2>1 DEF Rest
<1>3. /\ listener' \in [open : BOOLEAN, failed : BOOLEAN, pending : Seq(Children),
                        acceptQueue : Seq(Children), backlog : Int]
      /\ NoRepetition(listener'.pending) /\ NoRepetition(listener'.acceptQueue)
      /\ Pending' = Pending /\ Queued' = Queued
  BY StillListed
<1>4. PICK x : x = [on |-> s, type |-> Head(toServer[c])]
  OBVIOUS
<1>5. x \in Work /\ x.on = s /\ serverWork' = MoreWork(serverWork, c, x)
  BY <1>2, <1>4 DEF Work
<1>6. /\ serverWork' \in [Clients -> Seq(Work)] /\ Finite'
      /\ \A t \in Children : W(t)' = W(t) + (IF x.on = t THEN 1 ELSE 0) /\ W(t)' \in Nat
      /\ \A d \in Clients : \A y \in Range(serverWork'[d]) :
           y \in Range(serverWork[d]) \/ (d = c /\ y = x)
  BY <1>5, MoreW
<1>7. \A t \in Children : W(t) \in Nat
  BY WIsNat DEF ServerInv
<1>8. PICK k, m : k = child[s] /\ m = [k EXCEPT !.refs = @ + 1]
  OBVIOUS
<1>9. /\ m \in Child /\ m.remote = k.remote /\ (m.qp <=> k.qp) /\ (m.peerShutdown <=> k.peerShutdown)
  <2>1. k \in Child
    BY <1>1, <1>8
  <2> QED
    BY <2>1, <1>8 DEF Child
<1>10. /\ child' \in [Children -> Child] /\ child'[s] = m
       /\ \A t \in Children : t # s => child'[t] = child[t]
  BY <1>1, <1>8, <1>9 DEF WithChild
<1>11. \A t \in Children : Moves(child[t], child'[t], t, Pending', Queued', W(t)')
  <2> TAKE t \in Children
  <2>1. CASE t = s
    <3>1. PICK P, Q, w : P = Pending /\ Q = Queued /\ w = W(s)
      OBVIOUS
    <3>2. ChildOK(k, s, P, Q, w) /\ k.table /\ w \in Nat
      BY <1>7, <1>8, <3>1 DEF ServerInv, Family
    <3>3. Moves(k, m, s, P, Q, w + 1)
      BY <1>8, <3>2, GotMoves
    <3> QED
      BY <1>3, <1>5, <1>6, <1>8, <1>10, <2>1, <3>1, <3>3
  <2>2. CASE t # s
    <3>1. W(t)' = W(t)
      BY <1>5, <1>6, <1>7, <2>2
    <3> QED
      BY <1>3, <1>10, <2>2, <3>1, StillChild
  <2> QED
    BY <2>1, <2>2
<1>12. ServerStep
  <2>1. \A t \in Children : /\ child'[t].remote = child[t].remote /\ (child'[t].qp <=> child[t].qp)
                            /\ (child'[t].peerShutdown <=> child[t].peerShutdown)
    <3> TAKE t \in Children
    <3>1. CASE t = s
      BY <1>8, <1>9, <1>10, <3>1
    <3>2. CASE t # s
      BY <1>10, <3>2
    <3> QED
      BY <3>1, <3>2
  <2>2. \A d \in Clients : "DETACH" \in Range(toServer[d]) => "DETACH" \in Range(toServer'[d])
    BY <1>2
  <2> QED
    BY <2>1, <2>2 DEF ServerStep
<1>13. \A d \in Clients : \A y \in Range(serverWork'[d]) :
         y \in Range(serverWork[d]) \/ (y.on \in Children => child[y.on].remote = d)
  BY <1>5, <1>6
<1>14. ServerInv' /\ CountStep
  BY <1>2, <1>3, <1>6, <1>10, <1>11, <1>13, StillPackets, FamilyStep
<1> QED
  BY <1>12, <1>14

\* A packet is for the listener.
LEMMA PacketFindsListener ==
  ASSUME ServerInv, NEW c \in Clients, toServer[c] # <<>>, Head(toServer[c]) # "DETACH",
         toServer' = Arrived(toServer, c),
         serverWork' = MoreWork(serverWork, c, [on |-> Listener, type |-> Head(toServer[c])]),
         UNCHANGED <<client, child, listener, toClient, clientWork>>
  PROVE  ServerInv' /\ ServerStep /\ CountStep
<1>1. child \in [Children -> Child] /\ toServer \in [Clients -> Seq(Packet)]
  BY Typed DEF ServerInv
<1>2. /\ toServer' \in [Clients -> Seq(Packet)] /\ Head(toServer[c]) \in Packet
      /\ Range(toServer[c]) = Range(toServer'[c]) \cup {Head(toServer[c])}
      /\ \A d \in Clients : d # c => toServer'[d] = toServer[d]
  <2>1. Rest(toServer, toServer', c)
    BY <1>1, ArriveIs
  <2> QED
    BY <2>1 DEF Rest
<1>3. /\ listener' \in [open : BOOLEAN, failed : BOOLEAN, pending : Seq(Children),
                        acceptQueue : Seq(Children), backlog : Int]
      /\ NoRepetition(listener'.pending) /\ NoRepetition(listener'.acceptQueue)
      /\ Pending' = Pending /\ Queued' = Queued
  BY StillListed
<1>4. PICK x : x = [on |-> Listener, type |-> Head(toServer[c])]
  OBVIOUS
<1>5. x \in Work /\ x.on \notin Children /\ serverWork' = MoreWork(serverWork, c, x)
  BY <1>2, <1>4, HandshakeAssumption DEF Work
<1>6. /\ serverWork' \in [Clients -> Seq(Work)] /\ Finite'
      /\ \A t \in Children : W(t)' = W(t) + (IF x.on = t THEN 1 ELSE 0) /\ W(t)' \in Nat
      /\ \A d \in Clients : \A y \in Range(serverWork'[d]) :
           y \in Range(serverWork[d]) \/ (d = c /\ y = x)
  BY <1>5, MoreW
<1>7. \A t \in Children : W(t) \in Nat
  BY WIsNat DEF ServerInv
<1>8. \A t \in Children : Moves(child[t], child'[t], t, Pending', Queued', W(t)')
  <2> TAKE t \in Children
  <2>1. W(t)' = W(t)
    BY <1>5, <1>6, <1>7
  <2> QED
    BY <1>3, <2>1, StillChild
<1>9. ServerStep
  <2>1. \A d \in Clients : "DETACH" \in Range(toServer[d]) => "DETACH" \in Range(toServer'[d])
    BY <1>2
  <2> QED
    BY <2>1 DEF ServerStep
<1>10. \A d \in Clients : \A y \in Range(serverWork'[d]) :
         y \in Range(serverWork[d]) \/ (y.on \in Children => child[y.on].remote = d)
  BY <1>5, <1>6
<1>11. ServerInv' /\ CountStep
  BY <1>2, <1>3, <1>6, <1>8, <1>10, StillPackets, FamilyStep
<1> QED
  BY <1>9, <1>11

\* A packet finds nobody.
LEMMA PacketFindsNobody ==
  ASSUME ServerInv, NEW c \in Clients, toServer[c] # <<>>, Head(toServer[c]) # "DETACH",
         toServer' = Arrived(toServer, c),
         toClient' = Told(toClient, c, Reset(Head(toServer[c]))),
         UNCHANGED <<client, child, listener, serverWork, clientWork>>
  PROVE  ServerInv' /\ ServerStep /\ CountStep
<1>1. child \in [Children -> Child] /\ toServer \in [Clients -> Seq(Packet)]
  BY Typed DEF ServerInv
<1>2. /\ toServer' \in [Clients -> Seq(Packet)] /\ Head(toServer[c]) \in Packet
      /\ Range(toServer[c]) = Range(toServer'[c]) \cup {Head(toServer[c])}
      /\ \A d \in Clients : d # c => toServer'[d] = toServer[d]
  <2>1. Rest(toServer, toServer', c)
    BY <1>1, ArriveIs
  <2> QED
    BY <2>1 DEF Rest
<1>3. /\ listener' \in [open : BOOLEAN, failed : BOOLEAN, pending : Seq(Children),
                        acceptQueue : Seq(Children), backlog : Int]
      /\ NoRepetition(listener'.pending) /\ NoRepetition(listener'.acceptQueue)
      /\ Pending' = Pending /\ Queued' = Queued
  BY StillListed
<1>4. /\ serverWork' \in [Clients -> Seq(Work)] /\ Finite'
      /\ \A s \in Children : W(s)' = W(s) /\ W(s) \in Nat
      /\ \A d \in Clients : Range(serverWork'[d]) \subseteq Range(serverWork[d])
  BY StillWorked
<1>5. PICK x \in Seq(Packet) : x = Reset(Head(toServer[c])) /\ Range(x) \subseteq {"RST", "NEGOTIATE"}
  BY <1>2, NewsIsPackets
<1>6. \A d \in Clients : "DETACH" \in Range(toServer[d]) => "DETACH" \in Range(toServer'[d])
  BY <1>2
<1>7. toClient' \in [Clients -> Seq(Packet)] /\ ServerStep
  BY <1>5, <1>6, NoEndStep
<1>8. \A t \in Children : Moves(child[t], child'[t], t, Pending', Queued', W(t)')
  BY <1>3, <1>4, StillChild
<1>9. ServerInv' /\ CountStep
  BY <1>2, <1>3, <1>4, <1>7, <1>8, StillPackets, FamilyStep
<1> QED
  BY <1>7, <1>9

LEMMA ArriveAtServerStep ==
  ASSUME ServerInv, NEW c \in Clients, ArriveAtServer(c)
  PROVE  ServerInv' /\ ServerStep /\ CountStep
<1>1. toServer[c] # <<>> /\ toServer' = Arrived(toServer, c)
  BY DEF ArriveAtServer, Arrived
<1>2. CASE Head(toServer[c]) = "DETACH"
  <2>1. PICK data \in BOOLEAN :
          child' = [s \in Children |-> IF child[s].remote = c /\ child[s].qp THEN Detached(child[s], data)
                                       ELSE child[s]]
    BY <1>2 DEF ArriveAtServer
  <2>2. UNCHANGED <<client, listener, toClient, serverWork, clientWork>>
    BY <1>2 DEF ArriveAtServer
  <2> QED
    BY <1>1, <1>2, <2>1, <2>2, DetachArrives
<1>3. CASE Head(toServer[c]) # "DETACH" /\ \E s \in Children : child[s].remote = c /\ child[s].table
  <2>1. PICK s \in Children :
          /\ child[s].remote = c /\ child[s].table
          /\ child' = [child EXCEPT ![s].refs = @ + 1]
          /\ serverWork' = [serverWork EXCEPT ![c] = Append(@, [on |-> s, type |-> Head(toServer[c])])]
    BY <1>3 DEF ArriveAtServer
  <2>2. UNCHANGED <<client, listener, toClient, clientWork>>
    BY <1>3 DEF ArriveAtServer
  <2>3. serverWork' = MoreWork(serverWork, c, [on |-> s, type |-> Head(toServer[c])])
    BY <2>1 DEF MoreWork
  <2>4. child' = WithChild(s, [child[s] EXCEPT !.refs = @ + 1])
    BY <2>1 DEF WithChild
  <2> QED
    BY <1>1, <1>3, <2>1, <2>2, <2>3, <2>4, PacketFindsChild
<1>4. CASE Head(toServer[c]) # "DETACH" /\ ~ \E s \in Children : child[s].remote = c /\ child[s].table
  <2>0. UNCHANGED <<client, child, listener, clientWork>>
    BY <1>4 DEF ArriveAtServer
  <2>1. CASE listener.open
    <3>1. serverWork' = MoreWork(serverWork, c, [on |-> Listener, type |-> Head(toServer[c])])
          /\ UNCHANGED toClient
      BY <1>4, <2>1 DEF ArriveAtServer, MoreWork
    <3> QED
      BY <1>1, <1>4, <2>0, <3>1, PacketFindsListener
  <2>2. CASE ~listener.open
    <3>1. toClient' = Told(toClient, c, Reset(Head(toServer[c]))) /\ UNCHANGED serverWork
      BY <1>4, <2>2 DEF ArriveAtServer, Told
    <3> QED
      BY <1>1, <1>4, <2>0, <3>1, PacketFindsNobody
  <2> QED
    BY <2>1, <2>2
<1> QED
  BY <1>2, <1>3, <1>4

-----------------------------------------------------------------------------
(* Steps that put one child *)

Both(f, c, reply, k, n) == [f EXCEPT ![c] = @ \o reply \o Farewell(k, n)]
Bye(f, c, k, n) == [f EXCEPT ![c] = @ \o Farewell(k, n)]

LEMMA AnsweredIs ==
  ASSUME NEW f \in [Clients -> Seq(Packet)], NEW c \in Clients, NEW k, NEW n,
         NEW reply \in Seq(Packet)
  PROVE  /\ Both(f, c, reply, k, n) = Answered(f, c, reply, k, n)
         /\ Bye(f, c, k, n) = Answered(f, c, <<>>, k, n)
<1>1. PICK bye \in Seq(Packet) : bye = Farewell(k, n)
  BY NewsIsPackets
<1>2. f[c] \in Seq(Packet)
  OBVIOUS
<1>3. (f[c] \o reply) \o bye = f[c] \o (reply \o bye)
  BY <1>2, ConcatAssociative
<1>4. <<>> \o bye = bye
  BY ConcatEmptySeq
<1>5. [f EXCEPT ![c] = @ \o reply \o bye] = [f EXCEPT ![c] = @ \o (reply \o bye)]
  BY <1>3
<1>6. [f EXCEPT ![c] = @ \o bye] = [f EXCEPT ![c] = @ \o (<<>> \o bye)]
  BY <1>4
<1> QED
  BY <1>1, <1>5, <1>6 DEF Answered, Told, Both, Bye

LEMMA PutStep ==
  ASSUME ServerInv, NEW c \in Clients, NEW s \in Children, child[s].remote = c,
         NEW k \in Child, k.remote = c, k.qp <=> child[s].qp, child[s].peerShutdown => k.peerShutdown,
         NEW n \in Nat, NEW m, m = Put(k, n),
         child' = WithChild(s, m),
         NEW reply \in Seq(Packet), Range(reply) \subseteq {"RST"},
         toClient' = Answered(toClient, c, reply, k, n),
         UNCHANGED <<client, toServer, clientWork>>,
         listener' \in [open : BOOLEAN, failed : BOOLEAN, pending : Seq(Children),
                        acceptQueue : Seq(Children), backlog : Int],
         NoRepetition(listener'.pending), NoRepetition(listener'.acceptQueue),
         Pending' \subseteq Pending,
         \A t \in Children \ {s} : (t \in Pending' <=> t \in Pending) /\ (t \in Queued' <=> t \in Queued),
         serverWork' \in [Clients -> Seq(Work)], Finite',
         \A t \in Children \ {s} : W(t)' = W(t),
         \A d \in Clients : Range(serverWork'[d]) \subseteq Range(serverWork[d]),
         Moves(child[s], m, s, Pending', Queued', W(s)')
  PROVE  ServerInv' /\ ServerStep /\ CountStep
<1>1. /\ child' \in [Children -> Child] /\ toClient' \in [Clients -> Seq(Packet)]
      /\ ServerStep
  BY OneChildStep
<1>2. child'[s] = m /\ \A t \in Children \ {s} : child'[t] = child[t]
  <2>1. child \in [Children -> Child]
    BY Typed DEF ServerInv
  <2> QED
    BY <2>1 DEF WithChild
<1>3. \A t \in Children : Moves(child[t], child'[t], t, Pending', Queued', W(t)')
  <2> TAKE t \in Children
  <2>1. CASE t = s
    BY <1>2, <2>1
  <2>2. CASE t # s
    BY <1>2, <2>2, StillChild
  <2> QED
    BY <2>1, <2>2
<1>4. ServerInv' /\ CountStep
  BY <1>1, <1>3, StillPackets, FamilyStep
<1> QED
  BY <1>1, <1>4

LEMMA ChildWorksStep ==
  ASSUME ServerInv, NEW c \in Clients, ChildWorks(c)
  PROVE  ServerInv' /\ ServerStep /\ CountStep
<1>0. child \in [Children -> Child] /\ toClient \in [Clients -> Seq(Packet)]
  BY Typed DEF ServerInv
<1> DEFINE After(i, data) == IF child[serverWork[c][i].on].state = "connected" /\ serverWork[c][i].type = "RST"
                             THEN ResetConnected(child[serverWork[c][i].on], data)
                             ELSE child[serverWork[c][i].on]
           Reply(i) == IF child[serverWork[c][i].on].state = "connected" THEN <<>>
                       ELSE Reset(serverWork[c][i].type)
<1>a. PICK i \in DOMAIN serverWork[c], data \in BOOLEAN :
        /\ serverWork[c][i].on # Listener
        /\ child' = [child EXCEPT ![serverWork[c][i].on] = Put(After(i, data), 1)]
        /\ serverWork' = [serverWork EXCEPT ![c] = RemoveAt(@, i)]
        /\ toClient' = [toClient EXCEPT ![c] = @ \o Reply(i) \o Farewell(After(i, data), 1)]
        /\ UNCHANGED <<client, listener, toServer, clientWork>>
  BY DEF ChildWorks
<1>b. PICK s, type, k, reply :
        s = serverWork[c][i].on /\ type = serverWork[c][i].type /\ k = After(i, data) /\ reply = Reply(i)
  OBVIOUS
<1>1. /\ s = serverWork[c][i].on /\ type = serverWork[c][i].type /\ s # Listener
      /\ k = IF child[s].state = "connected" /\ type = "RST" THEN ResetConnected(child[s], data) ELSE child[s]
      /\ reply = IF child[s].state = "connected" THEN <<>> ELSE Reset(type)
      /\ listener' = listener
  BY <1>a, <1>b
<1>c. /\ child' = WithChild(s, Put(k, 1))
      /\ serverWork' = FewerWork(serverWork, c, i)
      /\ toClient' = Both(toClient, c, reply, k, 1)
  <2> HIDE DEF After, Reply
  <2> QED
    BY <1>a, <1>b DEF WithChild, FewerWork, Both
<1> HIDE DEF After, Reply
<1>2. s \in Children /\ type \in Packet
  BY <1>1, WorkIs DEF ServerInv
<1>3. child[s].remote = c
  BY <1>1, <1>2 DEF ServerInv, WorksMatch
<1>4. PICK z : z = child[s]
  OBVIOUS
<1>5. z \in Child /\ ChildOK(z, s, Pending, Queued, W(s)) /\ W(s) \in Nat
  BY <1>0, <1>2, <1>4, WIsNat DEF ServerInv, Family
<1>6. /\ k \in Child /\ k.remote = c /\ (k.qp <=> z.qp) /\ (z.peerShutdown => k.peerShutdown)
      /\ k.refs = z.refs /\ k.owner = z.owner /\ (k.table <=> z.table)
      /\ (k.timer <=> z.timer) /\ (k.rejected <=> z.rejected)
  <2>1. k = z \/ k = [z EXCEPT !.peerShutdown = TRUE, !.state = IF data THEN @ ELSE "disconnecting"]
    BY <1>1, <1>4 DEF ResetConnected
  <2>2. CASE k = z
    BY <1>3, <1>4, <1>5, <2>2
  <2>3. CASE k = [z EXCEPT !.peerShutdown = TRUE, !.state = IF data THEN @ ELSE "disconnecting"]
    <3>1. PICK st \in State : st = IF data THEN z.state ELSE "disconnecting"
      BY <1>5 DEF Child, State
    <3>2. k = [z EXCEPT !.peerShutdown = TRUE, !.state = st]
      BY <2>3, <3>1
    <3> QED
      BY <1>3, <1>4, <1>5, <3>2 DEF Child
  <2> QED
    BY <2>1, <2>2, <2>3
<1>7. reply \in Seq(Packet) /\ Range(reply) \subseteq {"RST"}
  <2>1. reply = <<>> \/ reply = Reset(type)
    BY <1>1
  <2>2. <<>> \in Seq(Packet) /\ Range(<<>>) = {}
    BY EmptySeq DEF Range
  <2>3. Reset(type) \in Seq(Packet) /\ Range(Reset(type)) \subseteq {"RST"}
    BY <1>2, NewsIsPackets
  <2> QED
    BY <2>1, <2>2, <2>3
<1>8. toClient' = Answered(toClient, c, reply, k, 1)
  BY <1>0, <1>c, <1>7, AnsweredIs
<1>9. PICK m : m = Put(k, 1)
  OBVIOUS
<1>10. child' = WithChild(s, m)
  BY <1>c, <1>9
<1>11. /\ serverWork' \in [Clients -> Seq(Work)] /\ Finite'
       /\ \A t \in Children :
            /\ W(t)' = W(t) - (IF serverWork[c][i].on = t THEN 1 ELSE 0) /\ W(t)' \in Nat
            /\ serverWork[c][i].on = t => W(t) # 0
       /\ \A d \in Clients : Range(serverWork'[d]) \subseteq Range(serverWork[d])
  BY <1>c, FewerW
<1>12. /\ listener' \in [open : BOOLEAN, failed : BOOLEAN, pending : Seq(Children),
                         acceptQueue : Seq(Children), backlog : Int]
       /\ NoRepetition(listener'.pending) /\ NoRepetition(listener'.acceptQueue)
       /\ Pending' = Pending /\ Queued' = Queued
  BY <1>1, StillListed
<1>13. Moves(child[s], m, s, Pending', Queued', W(s)')
  <2>1. PICK P, Q, w : P = Pending /\ Q = Queued /\ w = W(s)
    OBVIOUS
  <2>2. w # 0 /\ W(s)' = w - 1
    BY <1>1, <1>2, <1>11, <2>1
  <2>3. Moves(z, Put(k, 1), s, P, Q, w - 1)
    BY <1>3, <1>4, <1>5, <1>6, <2>1, <2>2, WorkedMoves
  <2> QED
    BY <1>4, <1>9, <1>12, <2>1, <2>2, <2>3
<1>14. \A t \in Children \ {s} : W(t)' = W(t)
  <2>1. \A t \in Children : W(t) \in Nat
    BY WIsNat DEF ServerInv
  <2> QED
    BY <1>1, <1>11, <2>1
<1>15. UNCHANGED <<client, toServer, clientWork>>
  BY <1>a
<1>16. (k.qp <=> child[s].qp) /\ (child[s].peerShutdown => k.peerShutdown)
  BY <1>4, <1>6
<1> QED
  BY <1>2, <1>3, <1>6, <1>7, <1>8, <1>9, <1>10, <1>11, <1>12, <1>13, <1>14, <1>15, <1>16, PutStep

LEMMA CloseAcceptedStep ==
  ASSUME ServerInv, NEW s \in Children, CloseAccepted(s)
  PROVE  ServerInv' /\ ServerStep /\ CountStep
<1>0. child \in [Children -> Child] /\ toClient \in [Clients -> Seq(Packet)]
  BY Typed DEF ServerInv
<1>1. PICK k, n, z : z = child[s] /\ k = Release(z, 0).child /\ n = Release(z, 0).drops
  OBVIOUS
<1>2. /\ z.owner = "user"
      /\ child' = WithChild(s, Put(k, n))
      /\ toClient' = Bye(toClient, z.remote, k, n)
      /\ UNCHANGED <<client, listener, toServer, serverWork, clientWork>>
  BY <1>1 DEF CloseAccepted, WithChild, Bye
<1>3. z \in Child /\ ChildOK(z, s, Pending, Queued, W(s)) /\ W(s) \in Nat
  BY <1>0, <1>1, WIsNat DEF ServerInv, Family
<1>4. s \notin Pending /\ s \notin Queued /\ ~(z.rejected /\ z.timer) /\ z.remote \in Clients
  BY <1>2, <1>3 DEF ChildOK, Free
<1>5. PICK c \in Clients : c = z.remote
  BY <1>4
<1>6. /\ k \in Child /\ k.remote = c /\ (k.qp <=> z.qp) /\ (k.peerShutdown <=> z.peerShutdown)
      /\ n \in Nat
  <2>1. k = [z EXCEPT !.table = FALSE, !.owner = "none"] /\ n = 0 + (IF z.table THEN 2 ELSE 1)
    BY <1>1 DEF Release
  <2>2. n \in Nat
    BY <2>1
  <2>3. k \in Child /\ k.remote = c /\ (k.qp <=> z.qp) /\ (k.peerShutdown <=> z.peerShutdown)
    BY <1>3, <1>5, <2>1 DEF Child
  <2> QED
    BY <2>2, <2>3
<1>12. <<>> \in Seq(Packet) /\ Range(<<>>) \subseteq {"RST"}
  BY EmptySeq DEF Range
<1>7. toClient' = Answered(toClient, c, <<>>, k, n)
  <2>1. toClient' = Bye(toClient, c, k, n)
    BY <1>2, <1>5
  <2>2. Bye(toClient, c, k, n) = Answered(toClient, c, <<>>, k, n)
    BY <1>0, <1>12, AnsweredIs
  <2> QED
    BY <2>1, <2>2
<1>8. /\ listener' \in [open : BOOLEAN, failed : BOOLEAN, pending : Seq(Children),
                        acceptQueue : Seq(Children), backlog : Int]
      /\ NoRepetition(listener'.pending) /\ NoRepetition(listener'.acceptQueue)
      /\ Pending' = Pending /\ Queued' = Queued
  BY <1>2, StillListed
<1>9. /\ serverWork' \in [Clients -> Seq(Work)] /\ Finite'
      /\ \A t \in Children : W(t)' = W(t) /\ W(t) \in Nat
      /\ \A d \in Clients : Range(serverWork'[d]) \subseteq Range(serverWork[d])
  BY <1>2, StillWorked
<1>10. PICK m : m = Put(k, n)
  OBVIOUS
<1>11. Moves(z, m, s, Pending', Queued', W(s)')
  <2>1. PICK P, Q, w : P = Pending /\ Q = Queued /\ w = W(s)
    OBVIOUS
  <2>2. 0 = Bit(s \in Q) /\ s \notin P /\ s \notin Q
    BY <1>4, <2>1 DEF Bit
  <2>3. ChildOK(z, s, P, Q, w) /\ w \in Nat /\ z.owner # "none" /\ ~(z.rejected /\ z.timer)
    BY <1>2, <1>3, <1>4, <2>1
  <2>4. Moves(z, Put(Release(z, 0).child, Release(z, 0).drops), s, P, Q, w)
    BY <2>2, <2>3, ReleaseMoves
  <2> QED
    BY <1>1, <1>8, <1>9, <1>10, <2>1, <2>4
<1>13. /\ child[s].remote = c /\ (k.qp <=> child[s].qp) /\ (child[s].peerShutdown => k.peerShutdown)
       /\ Moves(child[s], m, s, Pending', Queued', W(s)') /\ child' = WithChild(s, m)
  BY <1>1, <1>2, <1>5, <1>6, <1>10, <1>11
<1> QED
  BY <1>2, <1>6, <1>7, <1>8, <1>9, <1>10, <1>12, <1>13, PutStep

LEMMA AcceptStep ==
  ASSUME ServerInv, Accept
  PROVE  ServerInv' /\ ServerStep /\ CountStep
<1>0. child \in [Children -> Child] /\ toClient \in [Clients -> Seq(Packet)]
      /\ listener.acceptQueue \in Seq(Children)
  BY Typed DEF ServerInv
<1>1. PICK s, k : /\ s = Head(listener.acceptQueue)
                  /\ k = IF listener.failed THEN [child[s] EXCEPT !.rejected = TRUE]
                         ELSE [child[s] EXCEPT !.owner = "user"]
  OBVIOUS
<1>2. /\ listener.acceptQueue # <<>>
      /\ child' = WithChild(s, Put(k, 1))
      /\ toClient' = Bye(toClient, k.remote, k, 1)
      /\ listener' = [listener EXCEPT !.acceptQueue = Tail(@), !.backlog = @ - 1]
      /\ UNCHANGED <<client, toServer, serverWork, clientWork>>
  BY <1>1 DEF Accept, WithChild, Bye
<1>3. /\ s \in Queued /\ s \in Children /\ Tail(listener.acceptQueue) \in Seq(Children)
      /\ NoRepetition(Tail(listener.acceptQueue))
      /\ Range(Tail(listener.acceptQueue)) = Queued \ {s}
  BY <1>0, <1>1, <1>2, TailRange DEF ServerInv, Lists, Queued
<1>4. PICK z : z = child[s]
  OBVIOUS
<1>5. z \in Child /\ ChildOK(z, s, Pending, Queued, W(s)) /\ W(s) \in Nat
  BY <1>0, <1>3, <1>4, WIsNat DEF ServerInv, Family
<1>6. z.owner = "kernel" /\ z.remote \in Clients
  BY <1>3, <1>5 DEF ChildOK, Free
<1>7. PICK c \in Clients : c = z.remote
  BY <1>6
<1>8. k = [z EXCEPT !.rejected = TRUE] \/ k = [z EXCEPT !.owner = "user"]
  BY <1>1, <1>4
<1>9. k \in Child /\ k.remote = c /\ (k.qp <=> z.qp) /\ (k.peerShutdown <=> z.peerShutdown)
  BY <1>5, <1>7, <1>8 DEF Child
<1>15. <<>> \in Seq(Packet) /\ Range(<<>>) \subseteq {"RST"}
  BY EmptySeq DEF Range
<1>10. toClient' = Answered(toClient, c, <<>>, k, 1)
  BY <1>0, <1>2, <1>9, <1>15, AnsweredIs, ZenonT(30)
<1>11. /\ listener' \in [open : BOOLEAN, failed : BOOLEAN, pending : Seq(Children),
                         acceptQueue : Seq(Children), backlog : Int]
       /\ NoRepetition(listener'.pending) /\ NoRepetition(listener'.acceptQueue)
       /\ Pending' = Pending /\ Queued' = Queued \ {s}
  <2>1. PICK q, l : q = Tail(listener.acceptQueue) /\ l = listener
    OBVIOUS
  <2>a. l \in [open : BOOLEAN, failed : BOOLEAN, pending : Seq(Children),
               acceptQueue : Seq(Children), backlog : Int]
    BY <2>1 DEF ServerInv, HandshakeTypeOK
  <2>b. listener' = [l EXCEPT !.acceptQueue = q, !.backlog = l.backlog - 1]
    BY <1>2, <2>1
  <2>2. /\ listener' \in [open : BOOLEAN, failed : BOOLEAN, pending : Seq(Children),
                          acceptQueue : Seq(Children), backlog : Int]
        /\ listener'.pending = listener.pending /\ listener'.acceptQueue = q
    <3>1. q \in Seq(Children) /\ l.backlog - 1 \in Int
      BY <1>3, <2>1, <2>a
    <3>2. PICK b \in Int : b = l.backlog - 1
      BY <3>1
    <3>3. listener' = [l EXCEPT !.acceptQueue = q, !.backlog = b]
      BY <2>b, <3>2
    <3> QED
      BY <2>1, <2>a, <3>1, <3>3
  <2> QED
    BY <1>3, <2>1, <2>2 DEF ServerInv, Lists, Pending, Queued
<1>12. /\ serverWork' \in [Clients -> Seq(Work)] /\ Finite'
       /\ \A t \in Children : W(t)' = W(t) /\ W(t) \in Nat
       /\ \A d \in Clients : Range(serverWork'[d]) \subseteq Range(serverWork[d])
  BY <1>2, StillWorked
<1>13. PICK m : m = Put(k, 1)
  OBVIOUS
<1>14. Moves(z, m, s, Pending', Queued', W(s)')
  <2>1. PICK P, Q, Q2, w : P = Pending /\ Q = Queued /\ w = W(s) /\ Q2 = Queued'
    OBVIOUS
  <2>2. ChildOK(z, s, P, Q, w) /\ w \in Nat /\ s \in Q /\ s \notin Q2
    BY <1>3, <1>5, <1>11, <2>1
  <2>3. Moves(z, Put(k, 1), s, P, Q2, w)
    BY <1>8, <2>2, AcceptMoves
  <2> QED
    BY <1>3, <1>11, <1>12, <1>13, <2>1, <2>3
<1>16. /\ child[s].remote = c /\ (k.qp <=> child[s].qp) /\ (child[s].peerShutdown => k.peerShutdown)
       /\ Moves(child[s], m, s, Pending', Queued', W(s)') /\ child' = WithChild(s, m)
  BY <1>2, <1>4, <1>7, <1>9, <1>13, <1>14
<1> QED
  BY <1>2, <1>3, <1>9, <1>10, <1>11, <1>12, <1>13, <1>15, <1>16, PutStep

-----------------------------------------------------------------------------
(* The timer, and the end of the listener *)

LEMMA RemoveFirstAbsent ==
  ASSUME NEW S, NEW q \in Seq(S), NEW e, e \notin Range(q)
  PROVE  RemoveFirst(q, e) = q
<1>1. \A i \in 1..Len(q) : q[i] # e
  BY RangeEquality
<1> QED
  BY <1>1 DEF RemoveFirst

\* The listener after a child was taken off the pending list.
LEMMA ListenerWithout ==
  ASSUME ServerInv, NEW s \in Children, NEW b \in Int,
         \/ listener' = [listener EXCEPT !.pending = RemoveFirst(@, s), !.backlog = b]
         \/ listener' = [listener EXCEPT !.pending = RemoveFirst(@, s)]
  PROVE  /\ listener' \in [open : BOOLEAN, failed : BOOLEAN, pending : Seq(Children),
                           acceptQueue : Seq(Children), backlog : Int]
         /\ NoRepetition(listener'.pending) /\ NoRepetition(listener'.acceptQueue)
         /\ Pending' = Pending \ {s} /\ Queued' = Queued
<1>1. PICK q, l : q = RemoveFirst(listener.pending, s) /\ l = listener
  OBVIOUS
<1>2. listener.pending \in Seq(Children) /\ NoRepetition(listener.pending)
  BY Typed DEF ServerInv, Lists
<1>3. q \in Seq(Children) /\ NoRepetition(q) /\ Range(q) = Pending \ {s}
  <2>1. CASE s \in Pending
    BY <1>1, <1>2, <2>1, RemoveFirstIs DEF Pending
  <2>2. CASE s \notin Pending
    BY <1>1, <1>2, <2>2, RemoveFirstAbsent DEF Pending
  <2> QED
    BY <2>1, <2>2
<1>4. l \in [open : BOOLEAN, failed : BOOLEAN, pending : Seq(Children),
             acceptQueue : Seq(Children), backlog : Int]
  BY <1>1 DEF ServerInv, HandshakeTypeOK
<1>5. listener' = [l EXCEPT !.pending = q, !.backlog = b] \/ listener' = [l EXCEPT !.pending = q]
  BY <1>1
<1>6. /\ listener' \in [open : BOOLEAN, failed : BOOLEAN, pending : Seq(Children),
                        acceptQueue : Seq(Children), backlog : Int]
      /\ listener'.pending = q /\ listener'.acceptQueue = listener.acceptQueue
  BY <1>1, <1>3, <1>4, <1>5
<1> QED
  BY <1>3, <1>6 DEF ServerInv, Lists, Pending, Queued

LEMMA PendingWorkStep ==
  ASSUME ServerInv, NEW s \in Children, PendingWork(s)
  PROVE  ServerInv' /\ ServerStep /\ CountStep
<1>0. child \in [Children -> Child] /\ toClient \in [Clients -> Seq(Packet)] /\ listener.backlog \in Int
  BY Typed DEF ServerInv
<1>1. PICK z, P, Q, w : z = child[s] /\ P = Pending /\ Q = Queued /\ w = W(s)
  OBVIOUS
<1>2. z \in Child /\ ChildOK(z, s, P, Q, w) /\ w \in Nat /\ z.timer
  BY <1>0, <1>1, WIsNat DEF ServerInv, Family, PendingWork
<1>3. PICK c \in Clients : c = z.remote
  BY <1>2 DEF ChildOK, Free
<1>4. PICK k, n : /\ k = IF s \in P \/ z.rejected THEN TimedOut(z) ELSE [z EXCEPT !.timer = FALSE]
                  /\ n = (IF s \in P THEN 1 ELSE 0) + (IF s \in P \/ z.rejected THEN 2 ELSE 1)
                           + (IF (s \in P \/ z.rejected) /\ z.table THEN 1 ELSE 0)
  OBVIOUS
<1>5. k \in Child /\ k.remote = c /\ (k.qp <=> z.qp) /\ (k.peerShutdown <=> z.peerShutdown) /\ n \in Nat
  <2>1. n \in Nat
    BY <1>4
  <2>2. CASE k = TimedOut(z)
    BY <1>2, <1>3, <2>1, <2>2 DEF Child, State, TimedOut
  <2>3. CASE k = [z EXCEPT !.timer = FALSE]
    BY <1>2, <1>3, <2>1, <2>3 DEF Child
  <2> QED
    BY <1>4, <2>2, <2>3
<1>6. /\ child' = WithChild(s, Put(k, n))
      /\ listener' = IF s \in P \/ z.rejected
                     THEN [listener EXCEPT !.pending = RemoveFirst(@, s), !.backlog = @ - 1]
                     ELSE listener
      /\ toClient' = [d \in Clients |-> IF d = k.remote THEN toClient[d] \o Farewell(k, n) ELSE toClient[d]]
      /\ UNCHANGED <<client, toServer, serverWork, clientWork>>
  BY <1>1, <1>4 DEF PendingWork, WithChild, TimedOut, Pending
<1>7. <<>> \in Seq(Packet) /\ Range(<<>>) \subseteq {"RST"}
  BY EmptySeq DEF Range
<1>8. toClient' = Answered(toClient, c, <<>>, k, n)
  <2>1. toClient' = Bye(toClient, c, k, n)
    BY <1>0, <1>5, <1>6 DEF Bye
  <2>2. Bye(toClient, c, k, n) = Answered(toClient, c, <<>>, k, n)
    BY <1>0, <1>7, AnsweredIs
  <2> QED
    BY <2>1, <2>2
<1>9. /\ serverWork' \in [Clients -> Seq(Work)] /\ Finite'
      /\ \A t \in Children : W(t)' = W(t) /\ W(t) \in Nat
      /\ \A d \in Clients : Range(serverWork'[d]) \subseteq Range(serverWork[d])
  BY <1>6, StillWorked
<1>10. /\ listener' \in [open : BOOLEAN, failed : BOOLEAN, pending : Seq(Children),
                         acceptQueue : Seq(Children), backlog : Int]
       /\ NoRepetition(listener'.pending) /\ NoRepetition(listener'.acceptQueue)
       /\ Pending' = Pending \ {s} /\ Queued' = Queued
  <2>1. CASE s \in P \/ z.rejected
    <3>1. PICK b \in Int : b = listener.backlog - 1
      BY <1>0
    <3>2. listener' = [listener EXCEPT !.pending = RemoveFirst(@, s), !.backlog = b]
      BY <1>6, <2>1, <3>1
    <3> QED
      BY <3>2, ListenerWithout
  <2>2. CASE ~(s \in P \/ z.rejected)
    <3>1. listener' = listener
      BY <1>6, <2>2
    <3> QED
      BY <1>1, <2>2, <3>1, StillListed
  <2> QED
    BY <2>1, <2>2
<1>11. PICK m : m = Put(k, n)
  OBVIOUS
<1>12. Moves(z, m, s, Pending', Q, w)
  <2>1. CASE s \in P
    <3>1. ~z.table
      BY <1>2, <2>1 DEF ChildOK
    <3>2. n = 3 /\ k = TimedOut(z)
      BY <1>4, <2>1, <3>1
    <3>3. PICK P2 : P2 = Pending' /\ s \notin P2
      BY <1>10
    <3>4. Moves(z, Put(k, 3), s, P2, Q, w)
      BY <1>2, <2>1, <3>2, <3>3, TimerMoves
    <3> QED
      BY <1>11, <3>2, <3>3, <3>4
  <2>2. CASE s \notin P
    <3>1. Pending' = P
      BY <1>1, <1>10, <2>2
    <3>2. IF z.rejected THEN Moves(z, Put(TimedOut(z), 2 + Bit(z.table)), s, P, Q, w)
          ELSE Moves(z, Put([z EXCEPT !.timer = FALSE], 1), s, P, Q, w)
      BY <1>2, <2>2, LateTimerMoves
    <3>3. CASE z.rejected
      <4>1. k = TimedOut(z) /\ n = 2 + Bit(z.table)
        BY <1>4, <2>2, <3>3 DEF Bit
      <4> QED
        BY <1>11, <3>1, <3>2, <3>3, <4>1
    <3>4. CASE ~z.rejected
      <4>1. k = [z EXCEPT !.timer = FALSE] /\ n = 1
        BY <1>4, <2>2, <3>4
      <4> QED
        BY <1>11, <3>1, <3>2, <3>4, <4>1
    <3> QED
      BY <3>3, <3>4
  <2> QED
    BY <2>1, <2>2
<1>13. /\ child[s].remote = c /\ (k.qp <=> child[s].qp) /\ (child[s].peerShutdown => k.peerShutdown)
       /\ Moves(child[s], m, s, Pending', Queued', W(s)') /\ child' = WithChild(s, m)
  BY <1>1, <1>3, <1>5, <1>6, <1>9, <1>10, <1>11, <1>12
<1>14. UNCHANGED <<client, toServer, clientWork>>
  BY <1>6
<1> QED
  BY <1>5, <1>7, <1>8, <1>9, <1>10, <1>11, <1>13, <1>14, PutStep

\* The children in the accept queue go with the listener.
LEMMA CloseListenerStep ==
  ASSUME ServerInv, CloseListener
  PROVE  ServerInv' /\ ServerStep /\ CountStep
<1>0. child \in [Children -> Child] /\ toClient \in [Clients -> Seq(Packet)] /\ Queued \subseteq Children
  BY Typed DEF ServerInv
<1>1. PICK k : k = [s \in Queued |-> Release(child[s], 1).child]
  OBVIOUS
<1>2. PICK n : n = [s \in Queued |-> Release(child[s], 1).drops]
  OBVIOUS
<1>3. /\ child' = [s \in Children |-> IF s \in Queued THEN Put(k[s], n[s]) ELSE child[s]]
      /\ listener' = [listener EXCEPT !.open = FALSE, !.acceptQueue = <<>>]
      /\ toClient' = [c \in Clients |->
           toClient[c] \o (IF \E s \in Queued : k[s].remote = c /\ Farewell(k[s], n[s]) # <<>>
                           THEN <<"DETACH">> ELSE <<>>)]
      /\ UNCHANGED <<client, toServer, serverWork, clientWork>>
  BY <1>1, <1>2 DEF CloseListener, Queued
<1>4. /\ serverWork' \in [Clients -> Seq(Work)] /\ Finite'
      /\ \A s \in Children : W(s)' = W(s) /\ W(s) \in Nat
      /\ \A d \in Clients : Range(serverWork'[d]) \subseteq Range(serverWork[d])
  BY <1>3, StillWorked
<1>5. /\ listener' \in [open : BOOLEAN, failed : BOOLEAN, pending : Seq(Children),
                        acceptQueue : Seq(Children), backlog : Int]
      /\ NoRepetition(listener'.pending) /\ NoRepetition(listener'.acceptQueue)
      /\ Pending' = Pending /\ Queued' = {}
  <2>1. PICK q \in Seq(Children) : q = <<>> /\ Range(q) = {} /\ NoRepetition(q)
    <3>1. <<>> \in Seq(Children) /\ DOMAIN <<>> = {}
      BY EmptySeq
    <3> QED
      BY <3>1 DEF Range, NoRepetition
  <2>2. PICK l \in [open : BOOLEAN, failed : BOOLEAN, pending : Seq(Children),
                    acceptQueue : Seq(Children), backlog : Int] : l = listener
    BY DEF ServerInv, HandshakeTypeOK
  <2>3. listener' = [l EXCEPT !.open = FALSE, !.acceptQueue = q]
    BY <1>3, <2>1, <2>2
  <2>4. /\ listener' \in [open : BOOLEAN, failed : BOOLEAN, pending : Seq(Children),
                          acceptQueue : Seq(Children), backlog : Int]
        /\ listener'.pending = listener.pending /\ listener'.acceptQueue = q
    BY <2>2, <2>3
  <2> QED
    BY <2>1, <2>4 DEF ServerInv, Lists, Pending, Queued
<1>6. ASSUME NEW s \in Queued
      PROVE  /\ k[s] \in Child /\ k[s].remote = child[s].remote /\ (k[s].qp <=> child[s].qp)
             /\ (k[s].peerShutdown <=> child[s].peerShutdown) /\ n[s] \in Nat
             /\ child[s].remote \in Clients
             /\ Moves(child[s], child'[s], s, Pending', Queued', W(s)')
  <2>1. PICK z, y, d : z = child[s] /\ y = k[s] /\ d = n[s]
    OBVIOUS
  <2>2. y = Release(z, 1).child /\ d = Release(z, 1).drops
    BY <1>1, <1>2, <2>1
  <2>3. y = [z EXCEPT !.table = FALSE, !.owner = "none"] /\ d = 1 + (IF z.table THEN 2 ELSE 1)
    BY <2>2 DEF Release
  <2>4. z \in Child /\ ChildOK(z, s, Pending, Queued, W(s)) /\ W(s) \in Nat
    BY <1>0, <2>1, WIsNat DEF ServerInv, Family
  <2>5. z.owner = "kernel" /\ ~z.rejected /\ s \notin Pending /\ z.remote \in Clients
    BY <2>4 DEF ChildOK, Free
  <2>6. d \in Nat
    BY <2>3
  <2>7. y \in Child /\ y.remote = z.remote /\ (y.qp <=> z.qp) /\ (y.peerShutdown <=> z.peerShutdown)
    BY <2>3, <2>4 DEF Child
  <2>8. PICK P, Q, Q2, w : P = Pending /\ Q = Queued /\ Q2 = Queued' /\ w = W(s)
    OBVIOUS
  <2>9. 1 = Bit(s \in Q) /\ s \notin Q2
    BY <1>5, <2>8 DEF Bit
  <2>10. Moves(z, Put(Release(z, 1).child, Release(z, 1).drops), s, P, Q2, w)
    BY <2>4, <2>5, <2>8, <2>9, ReleaseMoves
  <2>11. child'[s] = Put(y, d)
    BY <1>0, <1>3, <2>1
  <2>12. Moves(z, child'[s], s, Pending', Queued', W(s)')
    BY <1>0, <1>4, <1>5, <2>2, <2>8, <2>10, <2>11
  <2> QED
    BY <2>1, <2>5, <2>6, <2>7, <2>12
<1>7. \A s \in Children \ Queued : child'[s] = child[s]
  BY <1>3
<1>8. ASSUME NEW s \in Queued
      PROVE  /\ child'[s] \in Child
             /\ child'[s].qp => child[s].qp /\ child'[s].remote = child[s].remote
                                /\ (child'[s].peerShutdown <=> child[s].peerShutdown)
             /\ child[s].qp /\ ~child'[s].qp => k[s].refs = n[s]
  <2>1. child'[s] = Put(k[s], n[s])
    BY <1>0, <1>3
  <2>2. PICK y, d, m : y = k[s] /\ d = n[s] /\ m = Put(y, d)
    OBVIOUS
  <2>3. /\ m \in Child
        /\ m.qp => y.qp /\ m.remote = y.remote /\ (m.peerShutdown <=> y.peerShutdown)
        /\ y.qp /\ ~m.qp => y.refs = d
    BY <1>6, <2>2, PutIs
  <2> QED
    BY <1>6, <2>1, <2>2, <2>3
<1>9. child' \in [Children -> Child]
  <2>1. child' = [s \in Children |-> child'[s]]
    BY <1>3
  <2>2. \A s \in Children : child'[s] \in Child
    BY <1>0, <1>7, <1>8
  <2> QED
    BY <2>1, <2>2
<1>10. \A s \in Children : Moves(child[s], child'[s], s, Pending', Queued', W(s)')
  <2> TAKE s \in Children
  <2>1. CASE s \in Queued
    BY <1>6, <2>1
  <2>2. CASE s \notin Queued
    BY <1>4, <1>5, <1>7, <2>2, StillChild
  <2> QED
    BY <2>1, <2>2
<1>11. ASSUME NEW c \in Clients
       PROVE  /\ toClient'[c] \in Seq(Packet)
              /\ Range(toClient'[c]) =
                   Range(toClient[c]) \cup (IF \E s \in Queued : k[s].remote = c /\ k[s].refs = n[s] /\ k[s].qp
                                            THEN {"DETACH"} ELSE {})
  <2>1. \A s \in Queued : Farewell(k[s], n[s]) # <<>> <=> k[s].refs = n[s] /\ k[s].qp
    <3>1. <<"DETACH">> # <<>>
      OBVIOUS
    <3> QED
      BY <3>1 DEF Farewell
  <2>2. <<"DETACH">> \in Seq(Packet) /\ Range(<<"DETACH">>) = {"DETACH"}
    BY DEF Range, Packet
  <2>3. <<>> \in Seq(Packet) /\ Range(<<>>) = {}
    BY EmptySeq DEF Range
  <2>4. PICK x \in Seq(Packet) :
          /\ x = IF \E s \in Queued : k[s].remote = c /\ Farewell(k[s], n[s]) # <<>>
                 THEN <<"DETACH">> ELSE <<>>
          /\ Range(x) = IF \E s \in Queued : k[s].remote = c /\ Farewell(k[s], n[s]) # <<>>
                        THEN {"DETACH"} ELSE {}
    BY <2>2, <2>3
  <2>5. toClient'[c] = toClient[c] \o x
    BY <1>3, <2>4
  <2>6. toClient[c] \in Seq(Packet)
    BY <1>0
  <2>7. toClient[c] \o x \in Seq(Packet) /\ Range(toClient[c] \o x) = Range(toClient[c]) \cup Range(x)
    BY <2>6, ConcatProperties, RangeConcatenation
  <2>8. (\E s \in Queued : k[s].remote = c /\ Farewell(k[s], n[s]) # <<>>)
          <=> \E s \in Queued : k[s].remote = c /\ k[s].refs = n[s] /\ k[s].qp
    BY <2>1
  <2> QED
    BY <2>4, <2>5, <2>7, <2>8
<1>12. toClient' \in [Clients -> Seq(Packet)]
  <2>1. toClient' = [c \in Clients |-> toClient'[c]]
    BY <1>3
  <2> QED
    BY <1>11, <2>1
<1>13. ServerStep
  <2>1. UNCHANGED <<client, toServer, clientWork>>
    BY <1>3
  <2>2. ASSUME NEW c \in Clients
        PROVE  /\ Range(toClient[c]) \subseteq Range(toClient'[c])
               /\ "ATTACH" \in Range(toClient'[c]) => "ATTACH" \in Range(toClient[c])
               /\ "DETACH" \in Range(toClient'[c]) =>
                    "DETACH" \in Range(toClient[c]) \/ \E s \in Children : child[s].qp /\ child[s].remote = c
    BY <1>0, <1>6, <1>11
  <2>3. ASSUME NEW s \in Children
        PROVE  /\ child'[s].qp => /\ child'[s].remote = child[s].remote
                                  /\ child[s].qp /\ (child[s].peerShutdown => child'[s].peerShutdown)
               /\ child[s].qp /\ ~child'[s].qp => "DETACH" \in Range(toClient'[child[s].remote])
    <3>1. CASE s \in Queued
      <4>1. /\ child'[s].qp => /\ child'[s].remote = child[s].remote
                               /\ child[s].qp /\ (child[s].peerShutdown => child'[s].peerShutdown)
            /\ child[s].qp /\ ~child'[s].qp => k[s].refs = n[s] /\ k[s].qp
        BY <1>6, <1>8, <3>1
      <4>2. k[s].remote = child[s].remote /\ child[s].remote \in Clients
        BY <1>6, <3>1
      <4>3. k[s].refs = n[s] /\ k[s].qp => "DETACH" \in Range(toClient'[child[s].remote])
        BY <1>11, <3>1, <4>2
      <4> QED
        BY <4>1, <4>3
    <3>2. CASE s \notin Queued
      BY <1>7, <3>2
    <3> QED
      BY <3>1, <3>2
  <2> QED
    BY <2>1, <2>2, <2>3 DEF ServerStep
<1>14. ServerInv' /\ CountStep
  BY <1>3, <1>4, <1>5, <1>9, <1>10, <1>12, StillPackets, FamilyStep
<1> QED
  BY <1>13, <1>14

-----------------------------------------------------------------------------
(* Works on the listener *)

\* A child that has a work is not free.
LEMMA WorkedOn ==
  ASSUME ServerInv, NEW c \in Clients, NEW i \in DOMAIN serverWork[c], NEW s, serverWork[c][i].on = s
  PROVE  Cardinality(WorksIn(serverWork, s)) # 0 \/ s \notin Children
<1>1. serverWork[c] \in Seq(Work)
  BY Typed DEF ServerInv
<1>2. i \in Nat
  BY <1>1, LenProperties
<1>3. <<c, i>> \in WorksIn(serverWork, s)
  BY <1>2 DEF WorksIn
<1>4. s \in Children => IsFiniteSet(WorksIn(serverWork, s))
  BY DEF ServerInv, Finite
<1> QED
  BY <1>3, <1>4, FS_EmptySet

\* The works after one on the listener is done.
LEMMA ListenerW ==
  ASSUME ServerInv, NEW c \in Clients, NEW i \in DOMAIN serverWork[c], serverWork[c][i].on = Listener,
         serverWork' = FewerWork(serverWork, c, i)
  PROVE  /\ serverWork' \in [Clients -> Seq(Work)] /\ Finite'
         /\ \A t \in Children : W(t)' = W(t) /\ W(t) \in Nat
         /\ \A d \in Clients : Range(serverWork'[d]) \subseteq Range(serverWork[d])
<1>1. /\ serverWork' \in [Clients -> Seq(Work)] /\ Finite'
      /\ \A t \in Children :
           /\ W(t)' = W(t) - (IF serverWork[c][i].on = t THEN 1 ELSE 0) /\ W(t)' \in Nat
           /\ serverWork[c][i].on = t => W(t) # 0
      /\ \A d \in Clients : Range(serverWork'[d]) \subseteq Range(serverWork[d])
  BY FewerW
<1>2. \A t \in Children : W(t) \in Nat /\ serverWork[c][i].on # t
  BY WIsNat, HandshakeAssumption DEF ServerInv
<1>3. \A t \in Children : W(t)' = W(t)
  BY <1>1, <1>2
<1> QED
  BY <1>1, <1>2, <1>3

\* The lists and the child after a work.
Attaching(s) == [listener EXCEPT !.pending = RemoveFirst(@, s), !.acceptQueue = Append(@, s)]
Unlisting(s) == [listener EXCEPT !.pending = RemoveFirst(@, s)]
Listing(s) == [listener EXCEPT !.pending = Append(@, s), !.backlog = @ + 1]

\* A pending child attaches.
LEMMA PendingAttaches ==
  ASSUME ServerInv, NEW c \in Clients, NEW s \in Pending, child[s].remote = c,
         child[s].state = "connecting", client[c].qp,
         child' = WithChild(s, AttachedChild(child[s])),
         listener' = Attaching(s),
         toClient' = SentOne(toClient, c, "ATTACH"),
         UNCHANGED <<client, toServer, clientWork>>,
         serverWork' \in [Clients -> Seq(Work)], Finite',
         \A t \in Children : W(t)' = W(t) /\ W(t) \in Nat,
         \A d \in Clients : Range(serverWork'[d]) \subseteq Range(serverWork[d])
  PROVE  ServerInv' /\ ServerStep /\ CountStep
<1>0. /\ child \in [Children -> Child] /\ toClient \in [Clients -> Seq(Packet)] /\ s \in Children
      /\ listener.pending \in Seq(Children) /\ listener.acceptQueue \in Seq(Children)
  BY Typed DEF ServerInv
<1>1. PICK z, m : z = child[s] /\ m = AttachedChild(z)
  OBVIOUS
<1>2. ChildOK(z, s, Pending, Queued, W(s)) /\ W(s) \in Nat
  BY <1>0, <1>1, WIsNat DEF ServerInv, Family
<1>3. s \notin Queued /\ ~z.qp
  BY <1>2 DEF ChildOK
<1>4. /\ listener' \in [open : BOOLEAN, failed : BOOLEAN, pending : Seq(Children),
                        acceptQueue : Seq(Children), backlog : Int]
      /\ NoRepetition(listener'.pending) /\ NoRepetition(listener'.acceptQueue)
      /\ Pending' = Pending \ {s} /\ Queued' = Queued \cup {s}
  <2>1. PICK q, a, l : q = RemoveFirst(listener.pending, s) /\ a = Append(listener.acceptQueue, s) /\ l = listener
    OBVIOUS
  <2>2. q \in Seq(Children) /\ NoRepetition(q) /\ Range(q) = Pending \ {s}
    <3>1. NoRepetition(listener.pending)
      BY DEF ServerInv, Lists
    <3> QED
      BY <1>0, <2>1, <3>1, RemoveFirstIs DEF Pending
  <2>3. a \in Seq(Children) /\ NoRepetition(a) /\ Range(a) = Queued \cup {s}
    <3>1. NoRepetition(listener.acceptQueue)
      BY DEF ServerInv, Lists
    <3> QED
      BY <1>0, <1>3, <2>1, <3>1, AppendRange DEF Queued
  <2>4. l \in [open : BOOLEAN, failed : BOOLEAN, pending : Seq(Children),
               acceptQueue : Seq(Children), backlog : Int]
    BY <2>1 DEF ServerInv, HandshakeTypeOK
  <2>5. listener' = [l EXCEPT !.pending = q, !.acceptQueue = a]
    BY <2>1 DEF Attaching
  <2>6. /\ listener' \in [open : BOOLEAN, failed : BOOLEAN, pending : Seq(Children),
                          acceptQueue : Seq(Children), backlog : Int]
        /\ listener'.pending = q /\ listener'.acceptQueue = a
    BY <2>2, <2>3, <2>4, <2>5
  <2> QED
    BY <2>2, <2>3, <2>6 DEF Pending, Queued
<1>5. Moves(z, m, s, Pending', Queued', W(s))
  <2>1. PICK P, Q, P2, Q2, w : P = Pending /\ Q = Queued /\ P2 = Pending' /\ Q2 = Queued' /\ w = W(s)
    OBVIOUS
  <2>2. s \in P /\ s \notin P2 /\ s \in Q2 /\ ChildOK(z, s, P, Q, w) /\ w \in Nat /\ z.state = "connecting"
    BY <1>1, <1>2, <1>4, <2>1
  <2>3. Moves(z, m, s, P2, Q2, w)
    BY <1>1, <2>2, AttachMoves
  <2> QED
    BY <2>1, <2>3
<1>6. m \in Child /\ m.qp /\ m.remote = c
  <2>1. m \in Child
    BY <1>5 DEF Moves, ChildOK
  <2>2. z \in Child
    BY <1>0, <1>1
  <2> QED
    BY <1>1, <2>1, <2>2 DEF AttachedChild, Child
<1>7. /\ child' \in [Children -> Child] /\ child'[s] = m
      /\ \A t \in Children : t # s => child'[t] = child[t]
  BY <1>0, <1>1, <1>6 DEF WithChild
<1>8. \A t \in Children : Moves(child[t], child'[t], t, Pending', Queued', W(t)')
  <2> TAKE t \in Children
  <2>1. CASE t = s
    BY <1>1, <1>5, <1>7, <2>1
  <2>2. CASE t # s
    BY <1>4, <1>7, <2>2, StillChild
  <2> QED
    BY <2>1, <2>2
<1>9. News(toClient, toClient', c, {"ATTACH"})
  <2>1. PICK x \in Packet : x = "ATTACH"
    BY DEF Packet
  <2> QED
    BY <1>0, <2>1, SendOneIs
<1>10. ServerStep
  <2>1. \A d \in Clients :
          /\ Range(toClient[d]) \subseteq Range(toClient'[d])
          /\ "ATTACH" \in Range(toClient'[d]) =>
               \/ "ATTACH" \in Range(toClient[d])
               \/ \E t \in Children : child'[t].qp /\ child'[t].remote = d
          /\ "DETACH" \in Range(toClient'[d]) => "DETACH" \in Range(toClient[d])
    BY <1>0, <1>6, <1>7, <1>9 DEF News
  <2>2. \A t \in Children :
          /\ child'[t].qp =>
               /\ child'[t].remote = child[t].remote
               /\ \/ child[t].qp /\ child'[t].peerShutdown = child[t].peerShutdown
                  \/ client[child[t].remote].qp /\ child[t].remote = c
          /\ child[t].qp => child'[t].qp
    BY <1>1, <1>3, <1>6, <1>7
  <2>3. "ATTACH" \in Range(toClient'[c])
    BY <1>9 DEF News
  <2> QED
    BY <2>1, <2>2, <2>3 DEF ServerStep
<1>11. ServerInv' /\ CountStep
  BY <1>4, <1>7, <1>8, <1>9, StillPackets, FamilyStep DEF News
<1> QED
  BY <1>10, <1>11

\* Another attempt of a client that has a pending child.
LEMMA PendingFails ==
  ASSUME ServerInv, NEW c \in Clients, NEW s \in Pending, child[s].remote = c, NEW type \in Packet,
         NEW k, NEW n,
         \/ /\ child[s].state = "connecting"
            /\ k = GivenUp(child[s])
            /\ n = IF type = "RST" THEN 1 ELSE 2
            /\ listener' = IF type = "RST" THEN listener
                           ELSE Unlisting(s)
         \/ /\ child[s].state # "connecting" /\ k = child[s] /\ n = 1
            /\ listener' = Unlisting(s),
         child' = WithChild(s, Put(k, n)),
         toClient' = Both(toClient, c, Reset(type), k, n),
         UNCHANGED <<client, toServer, clientWork>>,
         serverWork' \in [Clients -> Seq(Work)], Finite',
         \A t \in Children : W(t)' = W(t) /\ W(t) \in Nat,
         \A d \in Clients : Range(serverWork'[d]) \subseteq Range(serverWork[d])
  PROVE  ServerInv' /\ ServerStep /\ CountStep
<1>0. /\ child \in [Children -> Child] /\ toClient \in [Clients -> Seq(Packet)] /\ s \in Children
      /\ listener.backlog \in Int
  BY Typed DEF ServerInv
<1>1. PICK z, P, Q, w : z = child[s] /\ P = Pending /\ Q = Queued /\ w = W(s)
  OBVIOUS
<1>2. z \in Child /\ ChildOK(z, s, P, Q, w) /\ w \in Nat /\ s \in P
  BY <1>0, <1>1, WIsNat DEF ServerInv, Family
<1>3. PICK reply \in Seq(Packet) : reply = Reset(type) /\ Range(reply) \subseteq {"RST"}
  BY NewsIsPackets
<1>4. toClient' = Answered(toClient, c, reply, k, n)
  <2>1. Both(toClient, c, reply, k, n) = Answered(toClient, c, reply, k, n)
    BY <1>0, AnsweredIs, SMTT(30)
  <2> QED
    BY <1>3, <2>1
<1>5. k \in Child /\ k.remote = c /\ (k.qp <=> z.qp) /\ (k.peerShutdown <=> z.peerShutdown) /\ n \in {1, 2}
  BY <1>1, <1>2 DEF Child, State, GivenUp
<1>6. /\ listener' \in [open : BOOLEAN, failed : BOOLEAN, pending : Seq(Children),
                        acceptQueue : Seq(Children), backlog : Int]
      /\ NoRepetition(listener'.pending) /\ NoRepetition(listener'.acceptQueue)
      /\ Pending' = (IF z.state = "connecting" /\ n = 1 THEN Pending ELSE Pending \ {s})
      /\ Queued' = Queued
  <2>1. CASE z.state = "connecting" /\ n = 1
    <3>1. listener' = listener
      BY <1>1, <2>1
    <3> QED
      BY <2>1, <3>1, StillListed
  <2>2. CASE ~(z.state = "connecting" /\ n = 1)
    <3>1. listener' = Unlisting(s)
      BY <1>1, <2>2
    <3> QED
      BY <1>0, <2>2, <3>1, ListenerWithout DEF Unlisting
  <2> QED
    BY <2>1, <2>2
<1>7. PICK m : m = Put(k, n)
  OBVIOUS
<1>8. Moves(z, m, s, Pending', Q, w)
  <2>1. PICK P2 : P2 = Pending'
    OBVIOUS
  <2>2. CASE z.state = "connecting"
    <3>1. s \in P2 <=> n = 1
      BY <1>1, <1>2, <1>5, <1>6, <2>1, <2>2
    <3>2. k = GivenUp(z)
      BY <1>1, <2>2
    <3>3. Moves(z, Put(k, n), s, P2, Q, w)
      BY <1>2, <1>5, <2>2, <3>1, <3>2, FailMoves
    <3> QED
      BY <1>7, <2>1, <3>3
  <2>3. CASE z.state # "connecting"
    <3>1. s \notin P2
      BY <1>1, <1>6, <2>1, <2>3
    <3>2. k = z /\ n = 1
      BY <1>1, <2>3
    <3>3. Moves(z, Put(z, 1), s, P2, Q, w)
      BY <1>2, <2>3, <3>1, StaleMoves
    <3> QED
      BY <1>7, <2>1, <3>2, <3>3
  <2> QED
    BY <2>2, <2>3
<1>9. /\ child[s].remote = c /\ (k.qp <=> child[s].qp) /\ (child[s].peerShutdown => k.peerShutdown)
      /\ Moves(child[s], m, s, Pending', Queued', W(s)') /\ child' = WithChild(s, m)
      /\ Pending' \subseteq Pending /\ n \in Nat
      /\ \A t \in Children \ {s} : (t \in Pending' <=> t \in Pending) /\ (t \in Queued' <=> t \in Queued)
      /\ \A t \in Children \ {s} : W(t)' = W(t)
  BY <1>0, <1>1, <1>5, <1>6, <1>7, <1>8
<1>10. /\ k \in Child /\ k.remote = c /\ s \in Children
       /\ listener' \in [open : BOOLEAN, failed : BOOLEAN, pending : Seq(Children),
                         acceptQueue : Seq(Children), backlog : Int]
       /\ NoRepetition(listener'.pending) /\ NoRepetition(listener'.acceptQueue)
  BY <1>0, <1>5, <1>6
<1> QED
  BY <1>3, <1>4, <1>7, <1>9, <1>10, PutStep, ZenonT(30)

\* A request that is turned down, or something that is no request.
LEMMA NothingPending ==
  ASSUME ServerInv, NEW c \in Clients, NEW type \in Packet,
         toClient' = Told(toClient, c, Reset(type)),
         UNCHANGED <<client, child, listener, toServer, clientWork>>,
         serverWork' \in [Clients -> Seq(Work)], Finite',
         \A t \in Children : W(t)' = W(t) /\ W(t) \in Nat,
         \A d \in Clients : Range(serverWork'[d]) \subseteq Range(serverWork[d])
  PROVE  ServerInv' /\ ServerStep /\ CountStep
<1>1. child \in [Children -> Child]
  BY Typed DEF ServerInv
<1>2. /\ listener' \in [open : BOOLEAN, failed : BOOLEAN, pending : Seq(Children),
                        acceptQueue : Seq(Children), backlog : Int]
      /\ NoRepetition(listener'.pending) /\ NoRepetition(listener'.acceptQueue)
      /\ Pending' = Pending /\ Queued' = Queued
  BY StillListed
<1>3. PICK x \in Seq(Packet) : x = Reset(type) /\ Range(x) \subseteq {"RST", "NEGOTIATE"}
  BY NewsIsPackets
<1>4. toClient' \in [Clients -> Seq(Packet)] /\ ServerStep
  BY <1>3, NoEndStep
<1>5. \A t \in Children : Moves(child[t], child'[t], t, Pending', Queued', W(t)')
  BY <1>2, StillChild
<1>6. ServerInv' /\ CountStep
  BY <1>2, <1>4, <1>5, StillPackets, FamilyStep
<1> QED
  BY <1>4, <1>6

\* A request makes a child.
LEMMA RequestMakesChild ==
  ASSUME ServerInv, NEW c \in Clients, NEW s \in Children, child[s] = Free,
         \A t \in Pending : child[t].remote # c,
         child' = WithChild(s, NewChild(c)),
         listener' = Listing(s),
         toClient' = SentOne(toClient, c, "NEGOTIATE"),
         UNCHANGED <<client, toServer, clientWork>>,
         serverWork' \in [Clients -> Seq(Work)], Finite',
         \A t \in Children : W(t)' = W(t) /\ W(t) \in Nat,
         \A d \in Clients : Range(serverWork'[d]) \subseteq Range(serverWork[d])
  PROVE  ServerInv' /\ ServerStep /\ CountStep
<1>0. /\ child \in [Children -> Child] /\ toClient \in [Clients -> Seq(Packet)]
      /\ listener.pending \in Seq(Children) /\ Pending \subseteq Children
  BY Typed DEF ServerInv
<1>1. PICK z, P, Q, w, m : z = child[s] /\ P = Pending /\ Q = Queued /\ w = W(s) /\ m = NewChild(c)
  OBVIOUS
<1>2. ChildOK(Free, s, P, Q, w) /\ w \in Nat
  BY <1>1, WIsNat DEF ServerInv, Family
<1>3. s \notin P /\ s \notin Q /\ w = 0
  BY <1>2, FreeIsHeldByNobody
<1>4. /\ listener' \in [open : BOOLEAN, failed : BOOLEAN, pending : Seq(Children),
                        acceptQueue : Seq(Children), backlog : Int]
      /\ NoRepetition(listener'.pending) /\ NoRepetition(listener'.acceptQueue)
      /\ Pending' = Pending \cup {s} /\ Queued' = Queued
  <2>1. PICK q, l : q = Append(listener.pending, s) /\ l = listener
    OBVIOUS
  <2>2. q \in Seq(Children) /\ NoRepetition(q) /\ Range(q) = Pending \cup {s}
    <3>1. NoRepetition(listener.pending) /\ s \notin Range(listener.pending)
      BY <1>1, <1>3 DEF ServerInv, Lists, Pending
    <3> QED
      BY <1>0, <2>1, <3>1, AppendRange DEF Pending
  <2>3. l \in [open : BOOLEAN, failed : BOOLEAN, pending : Seq(Children),
               acceptQueue : Seq(Children), backlog : Int]
    BY <2>1 DEF ServerInv, HandshakeTypeOK
  <2>4. PICK b \in Int : b = l.backlog + 1
    BY <2>3
  <2>5. listener' = [l EXCEPT !.pending = q, !.backlog = b]
    BY <2>1, <2>4 DEF Listing
  <2>6. /\ listener' \in [open : BOOLEAN, failed : BOOLEAN, pending : Seq(Children),
                          acceptQueue : Seq(Children), backlog : Int]
        /\ listener'.pending = q /\ listener'.acceptQueue = l.acceptQueue
    BY <2>2, <2>3, <2>5
  <2> QED
    BY <2>1, <2>2, <2>6 DEF ServerInv, Lists, Pending, Queued
<1>5. ChildOK(m, s, Pending', Queued', W(s)')
  <2>1. PICK P2 : P2 = Pending' /\ s \in P2
    BY <1>4, ZenonT(30)
  <2>2. ChildOK(m, s, P2, Q, w)
    BY <1>1, <1>2, <2>1, NewMoves
  <2> QED
    BY <1>1, <1>4, <2>1, <2>2
<1>6. m \in Child /\ ~m.qp /\ m.remote = c
  <2>1. ~m.qp /\ m.remote = c
    BY <1>1 DEF NewChild, Free
  <2> QED
    BY <1>5, <2>1 DEF ChildOK
<1>7. /\ child' \in [Children -> Child] /\ child'[s] = m
      /\ \A t \in Children : t # s => child'[t] = child[t]
  BY <1>0, <1>1, <1>6 DEF WithChild
<1>8. Family'
  <2> SUFFICES ASSUME NEW t \in Children PROVE ChildOK(child'[t], t, Pending', Queued', W(t)')
    BY DEF Family
  <2>1. CASE t = s
    BY <1>5, <1>7, <2>1
  <2>2. CASE t # s
    <3>1. Moves(child[t], child'[t], t, Pending', Queued', W(t)')
      BY <1>4, <1>7, <2>2, StillChild
    <3> QED
      BY <3>1 DEF Moves
  <2> QED
    BY <2>1, <2>2
<1>9. WorksMatch'
  <2> SUFFICES ASSUME NEW d \in Clients, NEW i \in DOMAIN serverWork'[d], serverWork'[d][i].on \in Children
               PROVE  child'[serverWork'[d][i].on].remote = d
    BY DEF WorksMatch
  <2>1. PICK x : x = serverWork'[d][i]
    OBVIOUS
  <2>2. x \in Range(serverWork[d])
    BY <2>1 DEF Range
  <2>3. PICK j \in DOMAIN serverWork[d] : x = serverWork[d][j]
    BY <2>2 DEF Range
  <2>4. PICK t \in Children : t = x.on
    BY <2>1
  <2>5. child[t].remote = d
    BY <2>3, <2>4 DEF ServerInv, WorksMatch
  <2>6. t # s
    BY <1>1, <1>3, <2>3, <2>4, WorkedOn DEF W
  <2> QED
    BY <1>7, <2>1, <2>4, <2>5, <2>6
<1>10. Lists'
  <2>1. \A t \in Pending : child'[t] = child[t] /\ child[t].remote # c
    BY <1>0, <1>1, <1>3, <1>7
  <2>2. \A t, u \in Pending : child[t].remote = child[u].remote => t = u
    BY DEF ServerInv, Lists
  <2>3. child'[s].remote = c
    BY <1>6, <1>7
  <2>4. \A t, u \in Pending' : child'[t].remote = child'[u].remote => t = u
    <3> SUFFICES ASSUME NEW t \in Pending', NEW u \in Pending', child'[t].remote = child'[u].remote
                 PROVE  t = u
      OBVIOUS
    <3>1. (t \in Pending \/ t = s) /\ (u \in Pending \/ u = s)
      BY <1>4
    <3> QED
      BY <2>1, <2>2, <2>3, <3>1
  <2> QED
    BY <1>4, <2>4 DEF Lists
<1>11. News(toClient, toClient', c, {"NEGOTIATE"})
  <2>1. PICK x \in Packet : x = "NEGOTIATE"
    BY DEF Packet
  <2> QED
    BY <1>0, <2>1, SendOneIs
<1>12. HandshakeTypeOK'
  <2>1. /\ client' \in [Clients -> Client] /\ toServer' \in [Clients -> Seq(Packet)]
        /\ clientWork' \in [Clients -> Seq(Packet)] /\ toClient' \in [Clients -> Seq(Packet)]
    BY <1>11, StillPackets DEF News
  <2> QED
    BY <1>4, <1>7, <2>1 DEF HandshakeTypeOK, Work
<1>14. CountStep
  <2>1. m.refs # -1
    <3>1. m.refs = 3
      BY <1>1 DEF NewChild, Free
    <3> QED
      BY <3>1
  <2> QED
    BY <1>7, <2>1 DEF CountStep
<1>13. ServerStep
  <2>1. \A d \in Clients :
          /\ Range(toClient[d]) \subseteq Range(toClient'[d])
          /\ "ATTACH" \in Range(toClient'[d]) => "ATTACH" \in Range(toClient[d])
          /\ "DETACH" \in Range(toClient'[d]) => "DETACH" \in Range(toClient[d])
    <3>1. /\ Range(toClient'[c]) = Range(toClient[c]) \cup {"NEGOTIATE"}
          /\ \A d \in Clients : d # c => toClient'[d] = toClient[d]
      BY <1>11 DEF News
    <3> TAKE d \in Clients
    <3>2. CASE d = c
      BY <3>1, <3>2
    <3>3. CASE d # c
      BY <3>1, <3>3
    <3> QED
      BY <3>2, <3>3
  <2>2. \A t \in Children : /\ child'[t].qp => child'[t] = child[t]
                            /\ child[t].qp => child'[t].qp
    BY <1>6, <1>7, FreeIsChild
  <2> QED
    BY <2>1, <2>2 DEF ServerStep
<1> QED
  BY <1>8, <1>9, <1>10, <1>12, <1>13, <1>14 DEF ServerInv

LEMMA ListenerWorksStep ==
  ASSUME ServerInv, NEW c \in Clients, ListenerWorks(c)
  PROVE  ServerInv' /\ ServerStep /\ CountStep
<1>1. PICK i \in DOMAIN serverWork[c] :
        /\ serverWork[c][i].on = Listener
        /\ serverWork' = [serverWork EXCEPT ![c] = RemoveAt(@, i)]
        /\ \/ \E s \in {s \in Range(listener.pending) : child[s].remote = c} :
                ListenForPending(c, s, serverWork[c][i].type)
           \/ /\ {s \in Range(listener.pending) : child[s].remote = c} = {}
              /\ ListenToRequest(c, serverWork[c][i].type)
        /\ UNCHANGED <<client, toServer, clientWork>>
  BY DEF ListenerWorks
<1>2. PICK type \in Packet : type = serverWork[c][i].type
  BY WorkIs DEF ServerInv
<1>3. /\ serverWork' \in [Clients -> Seq(Work)] /\ Finite'
      /\ \A t \in Children : W(t)' = W(t) /\ W(t) \in Nat
      /\ \A d \in Clients : Range(serverWork'[d]) \subseteq Range(serverWork[d])
  <2>1. serverWork' = FewerWork(serverWork, c, i)
    BY <1>1 DEF FewerWork
  <2> QED
    BY <1>1, <2>1, ListenerW
<1>4. UNCHANGED <<client, toServer, clientWork>>
  BY <1>1
<1>5. ASSUME NEW s \in Pending, child[s].remote = c, ListenForPending(c, s, type)
      PROVE  ServerInv' /\ ServerStep /\ CountStep
  <2>1. CASE child[s].state = "connecting" /\ type = "OFFER" /\ MayAttach(c)
    <3>1. /\ child' = WithChild(s, AttachedChild(child[s]))
          /\ listener' = Attaching(s)
          /\ toClient' = SentOne(toClient, c, "ATTACH")
      <4>1. child \in [Children -> Child] /\ s \in Children
        BY Typed DEF ServerInv
      <4> QED
        BY <1>5, <2>1, <4>1 DEF ListenForPending, WithChild, AttachedChild, SentOne, Attaching
    <3>2. client[c].qp
      BY <2>1 DEF MayAttach
    <3> QED
      BY <1>3, <1>4, <1>5, <2>1, <3>1, <3>2, PendingAttaches
  <2>2. CASE child[s].state = "connecting" /\ ~(type = "OFFER" /\ MayAttach(c))
    <3>1. PICK k, n : /\ k = GivenUp(child[s])
                      /\ n = (IF type = "RST" THEN 0 ELSE 1) + 1
      OBVIOUS
    <3>2. /\ child' = WithChild(s, Put(k, n))
          /\ listener' = IF type = "RST" THEN listener ELSE Unlisting(s)
          /\ toClient' = Both(toClient, c, Reset(type), k, n)
      BY <1>5, <2>2, <3>1 DEF ListenForPending, WithChild, Both, GivenUp, Unlisting
    <3>3. n = IF type = "RST" THEN 1 ELSE 2
      BY <3>1
    <3> QED
      BY <1>3, <1>4, <1>5, <2>2, <3>1, <3>2, <3>3, PendingFails
  <2>3. CASE child[s].state # "connecting"
    <3>1. PICK k, n : k = child[s] /\ n = 1
      OBVIOUS
    <3>2. /\ child' = WithChild(s, Put(k, n))
          /\ listener' = Unlisting(s)
          /\ toClient' = Both(toClient, c, Reset(type), k, n)
      BY <1>5, <2>3, <3>1 DEF ListenForPending, WithChild, Both, Unlisting
    <3> QED
      BY <1>3, <1>4, <1>5, <2>3, <3>1, <3>2, PendingFails
  <2> QED
    BY <2>1, <2>2, <2>3
<1>6. ASSUME \A t \in Pending : child[t].remote # c, ListenToRequest(c, type)
      PROVE  ServerInv' /\ ServerStep /\ CountStep
  <2>1. CASE type # "REQUEST" \/ listener.backlog >= MaxBacklog
    <3>1. toClient' = Told(toClient, c, Reset(type)) /\ UNCHANGED <<child, listener>>
      BY <1>6, <2>1 DEF ListenToRequest, Told
    <3> QED
      BY <1>3, <1>4, <3>1, NothingPending
  <2>2. CASE ~(type # "REQUEST" \/ listener.backlog >= MaxBacklog)
    <3>1. PICK s \in Children :
            /\ child[s] = Free
            /\ child' = [child EXCEPT ![s] = NewChild(c)]
            /\ listener' = [listener EXCEPT !.pending = Append(@, s), !.backlog = @ + 1]
            /\ toClient' = [toClient EXCEPT ![c] = Append(@, "NEGOTIATE")]
      BY <1>6, <2>2 DEF ListenToRequest
    <3>2. child' = WithChild(s, NewChild(c)) /\ toClient' = SentOne(toClient, c, "NEGOTIATE")
      BY <3>1 DEF WithChild, SentOne
    <3>3. /\ child[s] = Free
          /\ listener' = Listing(s)
      BY <3>1 DEF Listing
    <3> QED
      BY <1>3, <1>4, <1>6, <3>2, <3>3, RequestMakesChild
  <2> QED
    BY <2>1, <2>2
<1> QED
  BY <1>1, <1>2, <1>5, <1>6 DEF Pending

-----------------------------------------------------------------------------
(* What a step of a client means to the listener's side *)

Attaching2(c) == "ATTACH" \in Range(toClient[c]) \cup Range(clientWork[c])

ClientStep ==
  /\ UNCHANGED <<child, listener, serverWork>>
  /\ \A c \in Clients :
       /\ client'[c].open => client[c].open /\ (client[c].qp => client'[c].qp)
       /\ client'[c].state = "connected" => client[c].state = "connected" \/ Attaching2(c)
       /\ Attaching2(c)' => Attaching2(c)
       /\ "DETACH" \in Range(toClient'[c]) => "DETACH" \in Range(toClient[c])
       /\ client[c].peerShutdown => client'[c].peerShutdown
       /\ "DETACH" \in Range(toClient[c]) =>
            "DETACH" \in Range(toClient'[c]) \/ ~client[c].qp \/ client'[c].peerShutdown
       /\ Range(toServer[c]) \subseteq Range(toServer'[c])
       /\ client[c].qp /\ ~client'[c].qp => "DETACH" \in Range(toServer'[c])

\* The listener's side does not change with a client's step.
LEMMA ServerIsStill ==
  ASSUME ServerInv, UNCHANGED <<child, listener, serverWork>>,
         client' \in [Clients -> Client], clientWork' \in [Clients -> Seq(Packet)],
         toServer' \in [Clients -> Seq(Packet)], toClient' \in [Clients -> Seq(Packet)]
  PROVE  ServerInv'
<1>1. HandshakeTypeOK'
  BY DEF ServerInv, HandshakeTypeOK
<1>2. Finite' /\ WorksMatch' /\ Lists'
  BY DEF ServerInv, Finite, WorksMatch, Lists, Pending
<1>3. Pending' = Pending /\ Queued' = Queued /\ \A s \in Children : W(s)' = W(s)
  BY DEF Pending, Queued, W
<1>4. Family'
  BY <1>3 DEF ServerInv, Family
<1> QED
  BY <1>1, <1>2, <1>4 DEF ServerInv

WithClient(c, m) == [client EXCEPT ![c] = m]

\* Only one client has changed.
LEMMA OneClientStep ==
  ASSUME ServerInv, NEW c \in Clients, NEW k, k = client[c], NEW m \in Client, client' = WithClient(c, m),
         UNCHANGED <<child, listener, serverWork>>,
         clientWork' \in [Clients -> Seq(Packet)],
         toServer' \in [Clients -> Seq(Packet)], toClient' \in [Clients -> Seq(Packet)],
         \A d \in Clients : d # c => /\ clientWork'[d] = clientWork[d] /\ toServer'[d] = toServer[d]
                                     /\ toClient'[d] = toClient[d],
         m.open => k.open /\ (k.qp => m.qp),
         m.state = "connected" => k.state = "connected" \/ Attaching2(c), Attaching2(c)' => Attaching2(c),
         "DETACH" \in Range(toClient'[c]) => "DETACH" \in Range(toClient[c]),
         k.peerShutdown => m.peerShutdown,
         "DETACH" \in Range(toClient[c]) =>
           "DETACH" \in Range(toClient'[c]) \/ ~k.qp \/ m.peerShutdown,
         Range(toServer[c]) \subseteq Range(toServer'[c]),
         k.qp /\ ~m.qp => "DETACH" \in Range(toServer'[c])
  PROVE  ServerInv' /\ ClientStep
<1>1. /\ client' \in [Clients -> Client] /\ client'[c] = m
      /\ \A d \in Clients : d # c => client'[d] = client[d]
  <2>1. client \in [Clients -> Client]
    BY Typed DEF ServerInv
  <2> QED
    BY <2>1 DEF WithClient
<1>2. ServerInv'
  BY <1>1, ServerIsStill
<1>3. \A d \in Clients : d # c => (Attaching2(d)' <=> Attaching2(d))
  BY DEF Attaching2
<1>4. ClientStep
  BY <1>1, <1>3 DEF ClientStep
<1> QED
  BY <1>2, <1>4

LEMMA ClientPutIs ==
  ASSUME NEW k \in Client, NEW works, NEW m, m = ClientPut(k, works)
  PROVE  /\ m \in Client /\ (m.open <=> k.open) /\ m.state = k.state
         /\ (m.peerShutdown <=> k.peerShutdown)
         /\ m.open => (m.qp <=> k.qp)
         /\ k.qp /\ ~m.qp => ~k.open /\ works = <<>>
<1>1. CASE ~k.open /\ works = <<>>
  BY <1>1 DEF ClientPut, Client
<1>2. CASE ~(~k.open /\ works = <<>>)
  BY <1>2 DEF ClientPut
<1> QED
  BY <1>1, <1>2

LEMMA ClientAnswersIs ==
  ASSUME NEW k \in Client, NEW type \in Packet, NEW refuse \in BOOLEAN, NEW data \in BOOLEAN,
         NEW m, m = ClientAnswers(k, type, refuse, data)[1],
         NEW x, x = ClientAnswers(k, type, refuse, data)[2]
  PROVE  /\ m \in Client /\ x \in Seq(Packet)
         /\ (m.open <=> k.open) /\ (k.qp => m.qp) /\ (k.peerShutdown => m.peerShutdown)
         /\ m.state = "connected" => k.state = "connected" \/ type = "ATTACH"
<1>1. Reset(type) \in Seq(Packet) /\ <<>> \in Seq(Packet) /\ <<"OFFER">> \in Seq(Packet)
  BY NewsIsPackets, EmptySeq DEF Packet
<1>2. CASE k.state = "connecting" /\ type = "ATTACH" /\ k.qp
  <2>1. m = [k EXCEPT !.state = "connected", !.sock = "connected"] /\ x = <<>>
    BY <1>2 DEF ClientAnswers
  <2>2. m \in Client /\ x \in Seq(Packet)
    BY <1>1, <2>1 DEF Client, State
  <2>3. (m.open <=> k.open) /\ (m.qp <=> k.qp) /\ (m.peerShutdown <=> k.peerShutdown)
    BY <2>1 DEF Client
  <2> QED
    BY <1>2, <2>2, <2>3
<1>3. CASE k.state = "connecting" /\ type = "NEGOTIATE" /\ ~k.qp /\ ~refuse
  <2>1. m = [k EXCEPT !.qp = TRUE] /\ x = <<"OFFER">>
    BY <1>3 DEF ClientAnswers
  <2> QED
    BY <1>1, <1>3, <2>1 DEF Client
<1>4. CASE k.state = "connecting" /\ (type \notin {"ATTACH", "NEGOTIATE"} \/ (type = "ATTACH" /\ ~k.qp)
                                       \/ (type = "NEGOTIATE" /\ (k.qp \/ refuse)))
  <2>1. m = [k EXCEPT !.state = "unconnected", !.err = TRUE] /\ x = Reset(type)
    BY <1>4 DEF ClientAnswers
  <2> QED
    BY <1>1, <1>4, <2>1 DEF Client, State
<1>5. CASE k.state = "connected"
  <2>1. m = (IF type = "RST" THEN ResetConnected(k, data) ELSE k) /\ x = <<>>
    BY <1>5 DEF ClientAnswers
  <2>2. CASE type = "RST"
    <3>1. m = [k EXCEPT !.peerShutdown = TRUE, !.state = IF data THEN @ ELSE "disconnecting"]
      BY <2>1, <2>2 DEF ResetConnected
    <3> QED
      BY <1>1, <1>5, <2>1, <3>1 DEF Client, State
  <2>3. CASE type # "RST"
    BY <1>1, <1>5, <2>1, <2>3
  <2> QED
    BY <2>2, <2>3
<1>6. CASE k.state \notin {"connecting", "connected"}
  <2>1. m = k /\ x = Reset(type)
    BY <1>6 DEF ClientAnswers
  <2> QED
    BY <1>1, <1>6, <2>1
<1> QED
  BY <1>2, <1>3, <1>4, <1>5, <1>6

LEMMA ConnectStep ==
  ASSUME ServerInv, NEW c \in Clients, Connect(c)
  PROVE  ServerInv' /\ ClientStep
<1>0. /\ client \in [Clients -> Client] /\ toServer \in [Clients -> Seq(Packet)]
  BY Typed DEF ServerInv
<1>1. PICK k \in Client : k = client[c]
  BY <1>0
<1>2. k.calls < MaxConnects
  BY <1>1 DEF Connect
<1>3. PICK waits \in BOOLEAN :
        client' = [client EXCEPT ![c] =
          IF client[c].err THEN [client[c] EXCEPT !.state = "unconnected", !.calls = client[c].calls + 1]
          ELSE [client[c] EXCEPT !.state = "connecting", !.sock = "connecting", !.waits = waits,
                                 !.calls = client[c].calls + 1]]
  BY DEF Connect
<1>4. PICK n \in 0..MaxConnects : n = k.calls + 1
  BY <1>2, HandshakeAssumption DEF Client
<1>5. PICK m : m = IF k.err THEN [k EXCEPT !.state = "unconnected", !.calls = n]
                   ELSE [k EXCEPT !.state = "connecting", !.sock = "connecting", !.waits = waits, !.calls = n]
  OBVIOUS
<1>6. client' = WithClient(c, m)
  <2>1. CASE k.err
    <3>1. m = [k EXCEPT !.state = "unconnected", !.calls = k.calls + 1]
      BY <1>4, <1>5, <2>1
    <3>2. client' = [client EXCEPT ![c] = [k EXCEPT !.state = "unconnected", !.calls = k.calls + 1]]
      BY <1>1, <1>3, <2>1
    <3> QED
      BY <3>1, <3>2 DEF WithClient
  <2>2. CASE ~k.err
    <3>1. m = [k EXCEPT !.state = "connecting", !.sock = "connecting", !.waits = waits,
                        !.calls = k.calls + 1]
      BY <1>4, <1>5, <2>2
    <3>2. client' = [client EXCEPT ![c] =
                       [k EXCEPT !.state = "connecting", !.sock = "connecting", !.waits = waits,
                                 !.calls = k.calls + 1]]
      BY <1>1, <1>3, <2>2
    <3> QED
      BY <3>1, <3>2 DEF WithClient
  <2> QED
    BY <2>1, <2>2
<1>7. /\ m \in Client /\ (m.open <=> k.open) /\ (m.qp <=> k.qp) /\ (m.peerShutdown <=> k.peerShutdown)
      /\ m.state # "connected"
  <2>1. CASE k.err
    BY <1>4, <1>5, <2>1 DEF Client, State
  <2>2. CASE ~k.err
    BY <1>4, <1>5, <2>2 DEF Client, State
  <2> QED
    BY <2>1, <2>2
<1>8. /\ UNCHANGED <<child, listener, toClient, serverWork, clientWork>>
      /\ toServer' = SentOne(toServer, c, "REQUEST")
  BY DEF Connect, SentOne
<1>9. News(toServer, toServer', c, {"REQUEST"})
  <2>1. PICK x \in Packet : x = "REQUEST"
    BY DEF Packet
  <2> QED
    BY <1>0, <1>8, <2>1, SendOneIs
<1>10. /\ toServer' \in [Clients -> Seq(Packet)] /\ Range(toServer[c]) \subseteq Range(toServer'[c])
       /\ \A d \in Clients : d # c => toServer'[d] = toServer[d]
  BY <1>9 DEF News
<1>11. clientWork' \in [Clients -> Seq(Packet)] /\ toClient' \in [Clients -> Seq(Packet)]
  BY <1>8, StillPackets
<1>12. Attaching2(c)' <=> Attaching2(c)
  BY <1>8 DEF Attaching2
<1> QED
  BY <1>1, <1>6, <1>7, <1>8, <1>10, <1>11, <1>12, OneClientStep

\* A step that touches nothing but the client.
LEMMA AloneStep ==
  ASSUME ServerInv, NEW c \in Clients, NEW m \in Client, client' = WithClient(c, m),
         m.open => client[c].open, m.qp <=> client[c].qp, m.peerShutdown <=> client[c].peerShutdown,
         m.state = "connected" => client[c].state = "connected",
         UNCHANGED <<child, listener, toServer, toClient, serverWork, clientWork>>
  PROVE  ServerInv' /\ ClientStep
<1>1. /\ clientWork' \in [Clients -> Seq(Packet)] /\ toClient' \in [Clients -> Seq(Packet)]
      /\ toServer' \in [Clients -> Seq(Packet)]
  BY StillPackets
<1>2. Attaching2(c)' <=> Attaching2(c)
  BY DEF Attaching2
<1>3. PICK k : k = client[c]
  OBVIOUS
<1>4. /\ m.open => k.open /\ (k.qp => m.qp)
      /\ m.state = "connected" => k.state = "connected" \/ Attaching2(c)
      /\ Attaching2(c)' => Attaching2(c)
      /\ k.peerShutdown => m.peerShutdown
      /\ ~(k.qp /\ ~m.qp)
  BY <1>2, <1>3
<1> QED
  BY <1>1, <1>3, <1>4, OneClientStep

LEMMA ConnectAgainStep ==
  ASSUME ServerInv, NEW c \in Clients, ConnectAgain(c)
  PROVE  ServerInv' /\ ClientStep
<1>0. client \in [Clients -> Client]
  BY Typed DEF ServerInv
<1>1. PICK k \in Client : k = client[c]
  BY <1>0
<1>2. PICK m : m = [k EXCEPT !.waits = TRUE]
  OBVIOUS
<1>3. m \in Client /\ (m.open <=> k.open) /\ (m.qp <=> k.qp) /\ (m.peerShutdown <=> k.peerShutdown) /\ m.state = k.state
  BY <1>2 DEF Client
<1>4. client' = WithClient(c, m)
  BY <1>0, <1>1, <1>2 DEF ConnectAgain, WithClient
<1>5. UNCHANGED <<child, listener, toServer, toClient, serverWork, clientWork>>
  BY DEF ConnectAgain
<1> QED
  BY <1>1, <1>3, <1>4, <1>5, AloneStep

LEMMA ConnectReturnsStep ==
  ASSUME ServerInv, NEW c \in Clients, ConnectReturns(c)
  PROVE  ServerInv' /\ ClientStep
<1>0. client \in [Clients -> Client]
  BY Typed DEF ServerInv
<1>1. PICK k \in Client : k = client[c]
  BY <1>0
<1>2. PICK givesUp \in {FALSE, MayGiveUp(c)} :
        client' = [client EXCEPT ![c] =
          IF givesUp \/ @.err
          THEN [@ EXCEPT !.waits = FALSE, !.state = "unconnected", !.sock = "unconnected"]
          ELSE [@ EXCEPT !.waits = FALSE]]
  BY DEF ConnectReturns
<1>3. PICK m : m = IF givesUp \/ k.err
                   THEN [k EXCEPT !.waits = FALSE, !.state = "unconnected", !.sock = "unconnected"]
                   ELSE [k EXCEPT !.waits = FALSE]
  OBVIOUS
<1>4. /\ m \in Client /\ (m.open <=> k.open) /\ (m.qp <=> k.qp) /\ (m.peerShutdown <=> k.peerShutdown)
      /\ (m.state = k.state \/ m.state = "unconnected")
  <2>1. CASE givesUp \/ k.err
    BY <1>3, <2>1 DEF Client, State
  <2>2. CASE ~(givesUp \/ k.err)
    BY <1>3, <2>2 DEF Client, State
  <2> QED
    BY <2>1, <2>2
<1>5. client' = WithClient(c, m)
  BY <1>0, <1>1, <1>2, <1>3 DEF WithClient
<1>6. UNCHANGED <<child, listener, toServer, toClient, serverWork, clientWork>>
  BY DEF ConnectReturns
<1> QED
  BY <1>1, <1>4, <1>5, <1>6, AloneStep

LEMMA CloseClientStep ==
  ASSUME ServerInv, NEW c \in Clients, CloseClient(c)
  PROVE  ServerInv' /\ ClientStep
<1>0. /\ client \in [Clients -> Client] /\ toServer \in [Clients -> Seq(Packet)]
  BY Typed DEF ServerInv
<1>1. PICK k \in Client : k = client[c]
  BY <1>0
<1>2. PICK z, works : z = [k EXCEPT !.open = FALSE] /\ works = clientWork[c]
  OBVIOUS
<1>3. /\ z \in Client /\ ~z.open /\ (z.qp <=> k.qp) /\ (z.peerShutdown <=> k.peerShutdown) /\ z.state = k.state
  BY <1>2 DEF Client
<1>4. PICK m, x : m = ClientPut(z, works) /\ x = ClientFarewell(z, works)
  OBVIOUS
<1>5. /\ m \in Client /\ ~m.open /\ m.state = k.state /\ (m.peerShutdown <=> k.peerShutdown)
      /\ k.qp /\ ~m.qp => ~z.open /\ works = <<>> /\ z.qp
  BY <1>3, <1>4, ClientPutIs
<1>6. x \in Seq(Packet) /\ Range(x) = IF ~z.open /\ works = <<>> /\ z.qp THEN {"DETACH"} ELSE {}
  BY <1>4, NewsIsPackets
<1>7. /\ client' = WithClient(c, m) /\ toServer' = Told(toServer, c, x)
      /\ UNCHANGED <<child, listener, toClient, serverWork, clientWork>>
  BY <1>1, <1>2, <1>4 DEF CloseClient, WithClient, Told
<1>8. News(toServer, toServer', c, Range(x))
  BY <1>0, <1>6, <1>7, SendIs
<1>9. /\ toServer' \in [Clients -> Seq(Packet)] /\ Range(toServer[c]) \subseteq Range(toServer'[c])
      /\ \A d \in Clients : d # c => toServer'[d] = toServer[d]
      /\ k.qp /\ ~m.qp => "DETACH" \in Range(toServer'[c])
  BY <1>5, <1>6, <1>8 DEF News
<1>10. clientWork' \in [Clients -> Seq(Packet)] /\ toClient' \in [Clients -> Seq(Packet)]
  BY <1>7, StillPackets
<1>11. Attaching2(c)' <=> Attaching2(c)
  BY <1>7 DEF Attaching2
<1> QED
  BY <1>1, <1>5, <1>7, <1>9, <1>10, <1>11, OneClientStep

LEMMA ArriveAtClientStep ==
  ASSUME ServerInv, NEW c \in Clients, ArriveAtClient(c)
  PROVE  ServerInv' /\ ClientStep
<1>0. /\ client \in [Clients -> Client] /\ toServer \in [Clients -> Seq(Packet)]
      /\ toClient \in [Clients -> Seq(Packet)] /\ clientWork \in [Clients -> Seq(Packet)]
  BY Typed DEF ServerInv
<1>1. PICK k \in Client : k = client[c]
  BY <1>0
<1>2. Rest(toClient, toClient', c)
  <2>1. toClient[c] # <<>> /\ toClient' = Arrived(toClient, c)
    BY DEF ArriveAtClient, Arrived
  <2> QED
    BY <1>0, <2>1, ArriveIs
<1>3. PICK type \in Packet : type = Head(toClient[c])
  BY <1>2 DEF Rest
<1>4. /\ toClient' \in [Clients -> Seq(Packet)]
      /\ Range(toClient[c]) = Range(toClient'[c]) \cup {type}
      /\ \A d \in Clients : d # c => toClient'[d] = toClient[d]
  BY <1>2, <1>3 DEF Rest
<1>5. UNCHANGED <<child, listener, serverWork>>
  BY DEF ArriveAtClient
<1>6. CASE type = "DETACH"
  <2>1. PICK data \in MayHaveData(client[c]) : client' = [client EXCEPT ![c] = Detached(@, data)]
    BY <1>3, <1>6 DEF ArriveAtClient
  <2>2. UNCHANGED <<toServer, clientWork>>
    BY <1>3, <1>6 DEF ArriveAtClient
  <2>3. PICK m : m = Detached(k, data)
    OBVIOUS
  <2>4. client' = WithClient(c, m)
    BY <1>0, <1>1, <2>1, <2>3 DEF WithClient
  <2>5. /\ m \in Client /\ (m.open <=> k.open) /\ (m.qp <=> k.qp) /\ (k.peerShutdown => m.peerShutdown)
        /\ (m.state = "connected" => k.state = "connected") /\ (~k.qp \/ m.peerShutdown)
    <3>1. CASE ~k.qp
      BY <2>3, <3>1 DEF Detached
    <3>2. CASE k.qp
      <4>1. m = [k EXCEPT !.peerShutdown = TRUE, !.state = IF data THEN @ ELSE "unconnected"]
        BY <2>3, <3>2 DEF Detached
      <4> QED
        BY <4>1 DEF Client, State
    <3> QED
      BY <3>1, <3>2
  <2>6. Attaching2(c)' => Attaching2(c)
    BY <1>4, <2>2 DEF Attaching2
  <2>7. clientWork' \in [Clients -> Seq(Packet)] /\ toServer' \in [Clients -> Seq(Packet)]
    BY <2>2, StillPackets
  <2> QED
    BY <1>1, <1>4, <1>5, <2>2, <2>4, <2>5, <2>6, <2>7, OneClientStep
<1>7. CASE type # "DETACH"
  <2>1. client' = WithClient(c, k)
    BY <1>0, <1>1, <1>3, <1>7 DEF ArriveAtClient, WithClient
  <2>2. CASE client[c].open
    <3>1. clientWork' = SentOne(clientWork, c, type) /\ UNCHANGED toServer
      BY <1>3, <1>7, <2>2 DEF ArriveAtClient, SentOne
    <3>2. News(clientWork, clientWork', c, {type})
      BY <1>0, <3>1, SendOneIs
    <3>3. /\ clientWork' \in [Clients -> Seq(Packet)]
          /\ Range(clientWork'[c]) = Range(clientWork[c]) \cup {type}
          /\ \A d \in Clients : d # c => clientWork'[d] = clientWork[d]
      BY <3>2 DEF News
    <3>4. Attaching2(c)' => Attaching2(c)
      BY <1>4, <3>3 DEF Attaching2
    <3>5. toServer' \in [Clients -> Seq(Packet)]
      BY <3>1, StillPackets
    <3> QED
      BY <1>1, <1>4, <1>5, <1>7, <2>1, <3>1, <3>3, <3>4, <3>5, OneClientStep
  <2>3. CASE ~client[c].open
    <3>1. toServer' = Told(toServer, c, Reset(type)) /\ UNCHANGED clientWork
      BY <1>3, <1>7, <2>3 DEF ArriveAtClient, Told
    <3>2. PICK x \in Seq(Packet) : x = Reset(type)
      BY NewsIsPackets
    <3>3. News(toServer, toServer', c, Range(x))
      BY <1>0, <3>1, <3>2, SendIs
    <3>4. /\ toServer' \in [Clients -> Seq(Packet)] /\ Range(toServer[c]) \subseteq Range(toServer'[c])
          /\ \A d \in Clients : d # c => toServer'[d] = toServer[d]
      BY <3>3 DEF News
    <3>5. Attaching2(c)' => Attaching2(c)
      BY <1>4, <3>1 DEF Attaching2
    <3>6. clientWork' \in [Clients -> Seq(Packet)]
      BY <3>1, StillPackets
    <3> QED
      BY <1>1, <1>4, <1>5, <1>7, <2>1, <3>1, <3>4, <3>5, <3>6, OneClientStep
  <2> QED
    BY <2>2, <2>3
<1> QED
  BY <1>6, <1>7

LEMMA ClientWorksStep ==
  ASSUME ServerInv, NEW c \in Clients, ClientWorks(c)
  PROVE  ServerInv' /\ ClientStep
<1>0. /\ client \in [Clients -> Client] /\ toServer \in [Clients -> Seq(Packet)]
      /\ clientWork \in [Clients -> Seq(Packet)] /\ clientWork[c] \in Seq(Packet)
  BY Typed DEF ServerInv
<1>1. PICK k \in Client : k = client[c]
  BY <1>0
<1>2. PICK i \in DOMAIN clientWork[c], refuse \in {FALSE, "refuse" \in May}, data \in MayHaveData(client[c]) :
        /\ clientWork' = [clientWork EXCEPT ![c] = RemoveAt(clientWork[c], i)]
        /\ client' = [client EXCEPT ![c] =
             ClientPut(ClientAnswers(client[c], clientWork[c][i], refuse, data)[1], RemoveAt(clientWork[c], i))]
        /\ toServer' = [toServer EXCEPT ![c] =
             @ \o ClientAnswers(client[c], clientWork[c][i], refuse, data)[2]
               \o ClientFarewell(ClientAnswers(client[c], clientWork[c][i], refuse, data)[1],
                                 RemoveAt(clientWork[c], i))]
        /\ UNCHANGED <<child, listener, toClient, serverWork>>
  BY DEF ClientWorks
<1>3. PICK type, rest : type = clientWork[c][i] /\ rest = RemoveAt(clientWork[c], i)
  OBVIOUS
<1>4. type \in Packet /\ type \in Range(clientWork[c]) /\ rest \in Seq(Packet) /\ Range(rest) \subseteq Range(clientWork[c])
  <2>1. type \in Packet
    BY <1>0, <1>3, LenProperties, ElementOfSeq
  <2>2. type \in Range(clientWork[c])
    BY <1>3 DEF Range
  <2>3. rest \in Seq(Packet) /\ Range(rest) \subseteq Range(clientWork[c])
    BY <1>0, <1>3, RemoveAtIs, RemoveAtRange
  <2> QED
    BY <2>1, <2>2, <2>3
<1>5. PICK z, x : z = ClientAnswers(k, type, refuse, data)[1] /\ x = ClientAnswers(k, type, refuse, data)[2]
  OBVIOUS
<1>6. /\ z \in Client /\ x \in Seq(Packet)
      /\ (z.open <=> k.open) /\ (k.qp => z.qp) /\ (k.peerShutdown => z.peerShutdown)
      /\ z.state = "connected" => k.state = "connected" \/ type = "ATTACH"
  <2>1. refuse \in BOOLEAN /\ data \in BOOLEAN
    <3>1. refuse \in BOOLEAN
      <4>1. ("refuse" \in May) \in BOOLEAN
        OBVIOUS
      <4>2. PICK r \in BOOLEAN : r = ("refuse" \in May)
        BY <4>1
      <4>3. refuse \in {FALSE, r}
        BY <1>2, <4>2
      <4> QED
        BY <4>2, <4>3
    <3>2. data \in BOOLEAN
      <4>1. CASE client[c].state = "connected"
        BY <4>1 DEF MayHaveData
      <4>2. CASE client[c].state # "connected"
        BY <4>2 DEF MayHaveData
      <4> QED
        BY <4>1, <4>2
    <3> QED
      BY <3>1, <3>2
  <2> QED
    BY <1>4, <1>5, <2>1, ClientAnswersIs
<1>7. PICK m, bye : m = ClientPut(z, rest) /\ bye = ClientFarewell(z, rest)
  OBVIOUS
<1>8. /\ m \in Client /\ (m.open <=> z.open) /\ m.state = z.state
      /\ (m.peerShutdown <=> z.peerShutdown)
      /\ m.open => (m.qp <=> z.qp)
      /\ z.qp /\ ~m.qp => ~z.open /\ rest = <<>>
  BY <1>6, <1>7, ClientPutIs
<1>9. bye \in Seq(Packet) /\ Range(bye) = IF ~z.open /\ rest = <<>> /\ z.qp THEN {"DETACH"} ELSE {}
  BY <1>7, NewsIsPackets
<1>10. client' = WithClient(c, m) /\ clientWork' = [clientWork EXCEPT ![c] = rest]
  BY <1>1, <1>2, <1>3, <1>5, <1>7 DEF WithClient
<1>11. PICK y \in Seq(Packet) : Range(y) = Range(x) \cup Range(bye) /\ toServer' = Told(toServer, c, y)
  <2>1. x \o bye \in Seq(Packet) /\ Range(x \o bye) = Range(x) \cup Range(bye)
    BY <1>6, <1>9, ConcatProperties, RangeConcatenation
  <2>2. toServer[c] \in Seq(Packet)
    BY <1>0
  <2>3. (toServer[c] \o x) \o bye = toServer[c] \o (x \o bye)
    <3>1. x \in Seq(Packet) /\ bye \in Seq(Packet)
      BY <1>6, <1>9
    <3>2. PICK w \in Seq(Packet) : w = toServer[c]
      BY <2>2
    <3>3. (w \o x) \o bye = w \o (x \o bye)
      BY <3>1, ConcatAssociative
    <3> QED
      BY <3>2, <3>3
  <2>4. toServer' = [toServer EXCEPT ![c] = @ \o x \o bye]
    BY <1>1, <1>2, <1>3, <1>5, <1>7
  <2>5. toServer' = [toServer EXCEPT ![c] = @ \o (x \o bye)]
    BY <2>3, <2>4
  <2> QED
    BY <2>1, <2>5 DEF Told
<1>12. News(toServer, toServer', c, Range(y))
  BY <1>0, <1>11, SendIs
<1>13. /\ toServer' \in [Clients -> Seq(Packet)] /\ Range(toServer[c]) \subseteq Range(toServer'[c])
       /\ \A d \in Clients : d # c => toServer'[d] = toServer[d]
       /\ k.qp /\ ~m.qp => "DETACH" \in Range(toServer'[c])
  BY <1>6, <1>8, <1>9, <1>11, <1>12 DEF News
<1>14. /\ clientWork' \in [Clients -> Seq(Packet)] /\ clientWork'[c] = rest
       /\ \A d \in Clients : d # c => clientWork'[d] = clientWork[d]
  BY <1>0, <1>4, <1>10
<1>15. UNCHANGED <<child, listener, toClient, serverWork>>
  BY <1>2
<1>16. toClient' \in [Clients -> Seq(Packet)]
  BY <1>15, StillPackets
<1>17. (m.state = "connected" => k.state = "connected" \/ Attaching2(c)) /\ (Attaching2(c)' => Attaching2(c))
  BY <1>4, <1>6, <1>8, <1>14, <1>15 DEF Attaching2
<1>18. /\ m.open => k.open /\ (k.qp => m.qp)
       /\ k.peerShutdown => m.peerShutdown
  BY <1>6, <1>8
<1>19. client' = WithClient(c, m)
  BY <1>10
<1> QED
  BY <1>1, <1>8, <1>13, <1>14, <1>15, <1>16, <1>17, <1>18, <1>19, OneClientStep

-----------------------------------------------------------------------------
(* Connections that have one end *)

Attached(c) == \E s \in Children : child[s].remote = c /\ child[s].qp

\* What an open client may rely on: if it is connected, or is about to be, the
\* other end is there or the client is told; and it has a queue pair.
ClientEnds ==
  \A c \in Clients :
    client[c].open =>
      /\ client[c].state = "connected" \/ Attaching2(c) =>
           Attached(c) \/ client[c].peerShutdown \/ "DETACH" \in Range(toClient[c])
      /\ Attached(c) \/ "DETACH" \in Range(toClient[c]) \/ Attaching2(c) => client[c].qp

\* What a child that is attached may rely on.
ServerEnds ==
  \A s \in Children :
    child[s].qp =>
      \/ client[child[s].remote].qp
      \/ child[s].peerShutdown
      \/ "DETACH" \in Range(toServer[child[s].remote])

HalfOpenInv == ServerInv /\ ClientEnds /\ ServerEnds

LEMMA AttachedIsClients ==
  ASSUME ServerInv, NEW s \in Children, child[s].qp
  PROVE  child[s].remote \in Clients
<1>1. ChildOK(child[s], s, Pending, Queued, W(s))
  BY DEF ServerInv, Family
<1> QED
  BY <1>1, FreeIsChild DEF ChildOK

LEMMA ServerStepKeepsEnds ==
  ASSUME HalfOpenInv, ServerStep
  PROVE  ClientEnds' /\ ServerEnds'
<1>1. ClientEnds'
  <2> SUFFICES ASSUME NEW c \in Clients, client'[c].open
               PROVE  /\ client'[c].state = "connected" \/ Attaching2(c)' =>
                           Attached(c)' \/ client'[c].peerShutdown \/ "DETACH" \in Range(toClient'[c])
                      /\ Attached(c)' \/ "DETACH" \in Range(toClient'[c]) \/ Attaching2(c)' => client'[c].qp
    BY DEF ClientEnds
  <2>1. client' = client /\ clientWork' = clientWork
    BY DEF ServerStep
  <2>2. /\ client[c].state = "connected" \/ Attaching2(c) =>
             Attached(c) \/ client[c].peerShutdown \/ "DETACH" \in Range(toClient[c])
        /\ Attached(c) \/ "DETACH" \in Range(toClient[c]) \/ Attaching2(c) => client[c].qp
    BY <2>1 DEF HalfOpenInv, ClientEnds
  <2>3. Attaching2(c)' => Attaching2(c) \/ Attached(c)'
    BY <2>1 DEF ServerStep, Attaching2, Attached
  <2>4. Attached(c) => Attached(c)' \/ "DETACH" \in Range(toClient'[c])
    BY DEF ServerStep, Attached
  <2>5. Attached(c)' => Attached(c) \/ client[c].qp
    BY DEF ServerStep, Attached
  <2>6. /\ "DETACH" \in Range(toClient[c]) => "DETACH" \in Range(toClient'[c])
        /\ "DETACH" \in Range(toClient'[c]) => "DETACH" \in Range(toClient[c]) \/ Attached(c)
    BY DEF ServerStep, Attached
  <2> QED
    BY <2>1, <2>2, <2>3, <2>4, <2>5, <2>6
<1>2. ServerEnds'
  <2> SUFFICES ASSUME NEW s \in Children, child'[s].qp
               PROVE  \/ client'[child'[s].remote].qp
                      \/ child'[s].peerShutdown
                      \/ "DETACH" \in Range(toServer'[child'[s].remote])
    BY DEF ServerEnds
  <2>1. client' = client
    BY DEF ServerStep
  <2>2. PICK c : c = child[s].remote
    OBVIOUS
  <2>3. child'[s].remote = c
    BY <2>2 DEF ServerStep
  <2>4. CASE client[c].qp
    BY <2>1, <2>3, <2>4
  <2>5. CASE child[s].qp /\ (child[s].peerShutdown => child'[s].peerShutdown)
    <3>1. c \in Clients
      BY <2>2, <2>5, AttachedIsClients DEF HalfOpenInv
    <3>2. client[c].qp \/ child[s].peerShutdown \/ "DETACH" \in Range(toServer[c])
      BY <2>2, <2>5 DEF HalfOpenInv, ServerEnds
    <3>3. "DETACH" \in Range(toServer[c]) => "DETACH" \in Range(toServer'[c]) \/ child'[s].peerShutdown
      BY <2>2, <2>5, <3>1 DEF ServerStep
    <3> QED
      BY <2>1, <2>3, <2>5, <3>2, <3>3
  <2> QED
    BY <2>2, <2>4, <2>5 DEF ServerStep
<1> QED
  BY <1>1, <1>2

LEMMA ClientStepKeepsEnds ==
  ASSUME HalfOpenInv, ClientStep
  PROVE  ClientEnds' /\ ServerEnds'
<1>0. child' = child
  BY DEF ClientStep
<1>1. ClientEnds'
  <2> SUFFICES ASSUME NEW c \in Clients, client'[c].open
               PROVE  /\ client'[c].state = "connected" \/ Attaching2(c)' =>
                           Attached(c)' \/ client'[c].peerShutdown \/ "DETACH" \in Range(toClient'[c])
                      /\ Attached(c)' \/ "DETACH" \in Range(toClient'[c]) \/ Attaching2(c)' => client'[c].qp
    BY DEF ClientEnds
  <2>1. Attached(c)' <=> Attached(c)
    BY <1>0 DEF Attached
  <2>2. /\ client[c].state = "connected" \/ Attaching2(c) =>
             Attached(c) \/ client[c].peerShutdown \/ "DETACH" \in Range(toClient[c])
        /\ Attached(c) \/ "DETACH" \in Range(toClient[c]) \/ Attaching2(c) => client[c].qp
    BY DEF HalfOpenInv, ClientEnds, ClientStep
  <2> QED
    BY <2>1, <2>2 DEF ClientStep
<1>2. ServerEnds'
  <2> SUFFICES ASSUME NEW s \in Children, child[s].qp
               PROVE  \/ client'[child[s].remote].qp
                      \/ child[s].peerShutdown
                      \/ "DETACH" \in Range(toServer'[child[s].remote])
    BY <1>0 DEF ServerEnds
  <2>1. PICK c \in Clients : c = child[s].remote
    BY AttachedIsClients DEF HalfOpenInv
  <2>2. client[c].qp \/ child[s].peerShutdown \/ "DETACH" \in Range(toServer[c])
    BY <2>1 DEF HalfOpenInv, ServerEnds
  <2> QED
    BY <2>1, <2>2 DEF ClientStep
<1> QED
  BY <1>1, <1>2

LEMMA InitHalfOpenInv ==
  ASSUME HandshakeInit
  PROVE  HalfOpenInv
<1>0. <<>> \in Seq(Packet) /\ <<>> \in Seq(Children) /\ <<>> \in Seq(Work) /\ DOMAIN <<>> = {} /\ Range(<<>>) = {}
  BY EmptySeq DEF Range
<1>1. /\ \A c \in Clients : /\ client[c].open /\ client[c].state = "unconnected" /\ ~client[c].qp
                            /\ toServer[c] = <<>> /\ toClient[c] = <<>> /\ serverWork[c] = <<>>
                            /\ clientWork[c] = <<>>
      /\ \A s \in Children : child[s] = Free
      /\ listener.pending = <<>> /\ listener.acceptQueue = <<>>
  BY DEF HandshakeInit
<1>2. HandshakeTypeOK
  <2>1. client \in [Clients -> Client]
    <3>1. 0 \in 0..MaxConnects
      BY HandshakeAssumption
    <3> QED
      BY <3>1 DEF HandshakeInit, Client, State
  <2>2. child \in [Children -> Child]
    BY FreeIsChild DEF HandshakeInit
  <2>3. listener \in [open : BOOLEAN, failed : BOOLEAN, pending : Seq(Children),
                      acceptQueue : Seq(Children), backlog : Int]
    <3>1. ("fail" \in May) \in BOOLEAN
      OBVIOUS
    <3>2. PICK b \in BOOLEAN : b = ("fail" \in May)
      BY <3>1
    <3>3. PICK e \in {<<>>} : e = <<>>
      OBVIOUS
    <3>4. listener \in [open : {TRUE}, failed : {FALSE, b}, pending : {e}, acceptQueue : {e}, backlog : {0}]
      BY <3>2, <3>3 DEF HandshakeInit
    <3>5. PICK d \in BOOLEAN : listener = [open |-> TRUE, failed |-> d, pending |-> e, acceptQueue |-> e, backlog |-> 0]
      BY <3>4
    <3>6. e \in Seq(Children)
      BY <1>0, <3>3
    <3> QED
      BY <3>5, <3>6
  <2>4. /\ toServer \in [Clients -> Seq(Packet)] /\ toClient \in [Clients -> Seq(Packet)]
        /\ clientWork \in [Clients -> Seq(Packet)]
        /\ serverWork \in [Clients -> Seq(Work)]
    BY <1>0 DEF HandshakeInit
  <2> QED
    BY <2>1, <2>2, <2>3, <2>4 DEF HandshakeTypeOK, Work
<1>3. Pending = {} /\ Queued = {}
  BY <1>0, <1>1 DEF Pending, Queued
<1>4. \A s \in Children : WorksIn(serverWork, s) = {}
  BY <1>0, <1>1 DEF WorksIn
<1>5. Finite /\ \A s \in Children : W(s) = 0
  BY <1>4, FS_EmptySet DEF Finite, W
<1>6. Family
  <2> SUFFICES ASSUME NEW s \in Children PROVE ChildOK(Free, s, {}, {}, 0)
    BY <1>1, <1>3, <1>5 DEF Family
  <2>1. Free.refs = 0 /\ Free.owner = "none" /\ ~Free.table /\ ~Free.timer /\ ~Free.rejected
    BY DEF Free
  <2>2. HeldBy(Free, s, {}, {}, 0) = 0
    BY <2>1 DEF HeldBy, Bit
  <2> QED
    BY <2>1, <2>2, FreeIsChild DEF ChildOK
<1>7. WorksMatch
  BY <1>0, <1>1 DEF WorksMatch
<1>8. Lists
  <2>1. NoRepetition(<<>>)
    BY <1>0 DEF NoRepetition
  <2> QED
    BY <1>1, <1>3, <2>1 DEF Lists
<1>9. ServerInv
  BY <1>2, <1>5, <1>6, <1>7, <1>8 DEF ServerInv
<1>10. ServerEnds /\ \A c \in Clients : ~Attached(c)
  BY <1>1, FreeIsChild DEF ServerEnds, Attached
<1>11. ClientEnds
  <2>1. \A c \in Clients : ~Attaching2(c) /\ "DETACH" \notin Range(toClient[c])
    BY <1>0, <1>1 DEF Attaching2
  <2> QED
    BY <1>1, <1>10, <2>1 DEF ClientEnds
<1> QED
  BY <1>9, <1>10, <1>11 DEF HalfOpenInv

LEMMA StutterHalfOpenInv ==
  ASSUME HalfOpenInv, UNCHANGED handshakeVars
  PROVE  HalfOpenInv'
<1>1. UNCHANGED <<client, child, listener, toServer, toClient, serverWork, clientWork>>
  BY DEF handshakeVars
<1>2. /\ client' \in [Clients -> Client] /\ clientWork' \in [Clients -> Seq(Packet)]
      /\ toServer' \in [Clients -> Seq(Packet)] /\ toClient' \in [Clients -> Seq(Packet)]
  BY <1>1, Typed DEF HalfOpenInv, ServerInv
<1>3. ServerInv'
  BY <1>1, <1>2, ServerIsStill DEF HalfOpenInv
<1>4. ClientEnds' /\ ServerEnds'
  BY <1>1 DEF HalfOpenInv, ClientEnds, ServerEnds, Attached, Attaching2
<1> QED
  BY <1>3, <1>4 DEF HalfOpenInv

\* Every step is one of the listener's side or of a client.
LEMMA StepOfASide ==
  ASSUME ServerInv, HandshakeNext
  PROVE  ServerInv' /\ (ServerStep \/ ClientStep) /\ CountStep
<1>1. ASSUME NEW c \in Clients,
             \/ Connect(c) \/ ConnectAgain(c) \/ ConnectReturns(c) \/ CloseClient(c)
             \/ ArriveAtClient(c) \/ ClientWorks(c)
      PROVE  ServerInv' /\ ClientStep
  BY <1>1, ConnectStep, ConnectAgainStep, ConnectReturnsStep, CloseClientStep, ArriveAtClientStep, ClientWorksStep
<1>2. ASSUME NEW c \in Clients, ArriveAtServer(c) \/ ChildWorks(c) \/ ListenerWorks(c)
      PROVE  ServerInv' /\ ServerStep /\ CountStep
  BY <1>2, ArriveAtServerStep, ChildWorksStep, ListenerWorksStep
<1>3. ASSUME NEW s \in Children, PendingWork(s) \/ CloseAccepted(s)
      PROVE  ServerInv' /\ ServerStep /\ CountStep
  BY <1>3, PendingWorkStep, CloseAcceptedStep
<1>4. ASSUME Accept \/ CloseListener
      PROVE  ServerInv' /\ ServerStep /\ CountStep
  BY <1>4, AcceptStep, CloseListenerStep
<1>5. ClientStep => CountStep
  BY DEF ClientStep, CountStep
<1> QED
  BY <1>1, <1>2, <1>3, <1>4, <1>5 DEF HandshakeNext

\* The inductive invariant: the types, the lists and the counts of the
\* listener's side, and what either end of a connection knows of the other.
THEOREM HalfOpenInvariant == HandshakeSpec => []HalfOpenInv
<1>1. HandshakeInit => HalfOpenInv
  BY InitHalfOpenInv
<1>2. HalfOpenInv /\ [HandshakeNext]_handshakeVars => HalfOpenInv'
  <2> SUFFICES ASSUME HalfOpenInv, [HandshakeNext]_handshakeVars PROVE HalfOpenInv'
    OBVIOUS
  <2>1. CASE HandshakeNext
    <3>1. ServerInv' /\ (ServerStep \/ ClientStep)
      BY <2>1, StepOfASide DEF HalfOpenInv
    <3> QED
      BY <3>1, ServerStepKeepsEnds, ClientStepKeepsEnds DEF HalfOpenInv
  <2>2. CASE UNCHANGED handshakeVars
    BY <2>2, StutterHalfOpenInv
  <2> QED
    BY <2>1, <2>2
<1> QED
  BY <1>1, <1>2, PTL DEF HandshakeSpec

\* Type correctness of the sockets, the lists, the works and what is under way.
THEOREM HandshakeTypeCorrect == HandshakeSpec => []HandshakeTypeOK
<1>1. HalfOpenInv => HandshakeTypeOK
  BY DEF HalfOpenInv, ServerInv
<1> QED
  BY <1>1, HalfOpenInvariant, PTL

\* Whatever the environment does, an established connection has another end, or
\* its socket knows that it has not, or is told by what is on its way to it:
\* VSockVmciSkDestruct detaches, and VSockVmciHandleDetach is told of the peer.
THEOREM HalfOpenNoticed == HandshakeSpec => []HalfOpenIsNoticed
<1>1. HalfOpenInv => HalfOpenIsNoticed
  <2> SUFFICES ASSUME HalfOpenInv PROVE HalfOpenIsNoticed
    OBVIOUS
  <2>1. ASSUME NEW c \in Clients, client[c].open, client[c].state = "connected"
        PROVE  \/ \E s \in Children : child[s].remote = c /\ child[s].qp
               \/ Gone(client[c], toClient[c], Range(clientWork[c]))
    BY <2>1 DEF HalfOpenInv, ClientEnds, Attached, Gone
  <2>2. ASSUME NEW s \in Children, child[s].qp
        PROVE  \/ client[child[s].remote].qp
               \/ Gone(child[s], toServer[child[s].remote],
                       {serverWork[child[s].remote][i].type :
                          i \in {j \in DOMAIN serverWork[child[s].remote] :
                                   serverWork[child[s].remote][j].on = s}})
    BY <2>2 DEF HalfOpenInv, ServerEnds, Gone
  <2> QED
    BY <2>1, <2>2 DEF HalfOpenIsNoticed
<1> QED
  BY <1>1, HalfOpenInvariant, PTL

-----------------------------------------------------------------------------
(* Counts are those who hold *)

NoOverput == \A s \in Children : child[s].refs # -1

\* No pending child was reset.
PendingConnect == \A s \in Range(listener.pending) : child[s].state = "connecting"

LEMMA StrayIsPending ==
  ASSUME ServerInv, NEW s \in Children, Stray(child[s])
  PROVE  s \in Pending /\ child[s].state = "unconnected"
<1>1. PICK k, P, Q, w : k = child[s] /\ P = Pending /\ Q = Queued /\ w = W(s)
  OBVIOUS
<1>2. ChildOK(k, s, P, Q, w) /\ w \in Nat
  BY <1>1, WIsNat DEF ServerInv, Family
<1>3. k.refs = 2 /\ k.timer /\ k.owner = "none" /\ ~k.table /\ ~k.qp
  BY <1>1 DEF Stray
<1>4. w = 0 /\ s \notin Q /\ k.refs = HeldBy(k, s, P, Q, w)
  BY <1>2, <1>3 DEF ChildOK, Overput
<1>5. s \in P
  BY <1>3, <1>4 DEF HeldBy, Bit
<1> QED
  BY <1>1, <1>2, <1>3, <1>5 DEF ChildOK

LEMMA CountsAreKept ==
  ASSUME ServerInv, PendingConnect, NoOverput, CountStep
  PROVE  NoOverput'
<1> SUFFICES ASSUME NEW s \in Children PROVE child'[s].refs # -1
  BY DEF NoOverput
<1>1. child[s].refs # -1 /\ ~Stray(child[s])
  BY StrayIsPending DEF NoOverput, PendingConnect, Pending
<1> QED
  BY <1>1 DEF CountStep

\* One more, if P.
LEMMA AddOneIf ==
  ASSUME NEW S, IsFiniteSet(S), NEW x, x \notin S, NEW P \in BOOLEAN, NEW T,
         T = S \cup (IF P THEN {x} ELSE {})
  PROVE  IsFiniteSet(T) /\ Cardinality(T) = Cardinality(S) + Bit(P)
<1>0. Cardinality(S) \in Nat
  BY FS_CardinalityType
<1>1. CASE P
  BY <1>0, <1>1, FS_AddElement DEF Bit
<1>2. CASE ~P
  <2>1. T = S
    BY <1>2
  <2> QED
    BY <1>0, <1>2, <2>1 DEF Bit
<1> QED
  BY <1>1, <1>2

LEMMA HolderKindsAre ==
  ASSUME ServerInv, NEW s \in Children
  PROVE  Cardinality(HolderKinds(s)) =
           Bit(child[s].owner # "none") + Bit(s \in Pending) + Bit(s \in Queued) + Bit(child[s].table)
             + Bit(child[s].timer)
<1>1. PICK p1, p2, p3, p4, p5 \in BOOLEAN :
        /\ p1 <=> child[s].owner # "none"
        /\ p2 <=> s \in Pending
        /\ p3 <=> s \in Queued
        /\ p4 <=> child[s].table
        /\ p5 <=> child[s].timer
  <2>1. child[s] \in Child
    BY Typed DEF ServerInv
  <2>2. child[s].table \in BOOLEAN /\ child[s].timer \in BOOLEAN
    BY <2>1 DEF Child
  <2> QED
    BY <2>2
<1>2. PICK k1, k2, k3, k4, k5 :
        /\ k1 = {} \cup (IF p1 THEN {"own"} ELSE {})
        /\ k2 = k1 \cup (IF p2 THEN {"pending"} ELSE {})
        /\ k3 = k2 \cup (IF p3 THEN {"queue"} ELSE {})
        /\ k4 = k3 \cup (IF p4 THEN {"table"} ELSE {})
        /\ k5 = k4 \cup (IF p5 THEN {"timer"} ELSE {})
  OBVIOUS
<1>3. /\ k1 \subseteq {"own"} /\ k2 \subseteq {"own", "pending"} /\ k3 \subseteq {"own", "pending", "queue"}
      /\ k4 \subseteq {"own", "pending", "queue", "table"}
  BY <1>2
<1>4. IsFiniteSet({}) /\ Cardinality({}) = 0
  BY FS_EmptySet
<1>5. IsFiniteSet(k1) /\ Cardinality(k1) = Cardinality({}) + Bit(p1)
  BY <1>2, <1>4, AddOneIf
<1>6. IsFiniteSet(k2) /\ Cardinality(k2) = Cardinality(k1) + Bit(p2)
  <2>1. "pending" \notin k1 /\ IsFiniteSet(k1)
    BY <1>3, <1>5
  <2>2. k2 = k1 \cup (IF p2 THEN {"pending"} ELSE {})
    BY <1>2
  <2> QED
    BY <2>1, <2>2, AddOneIf
<1>7. IsFiniteSet(k3) /\ Cardinality(k3) = Cardinality(k2) + Bit(p3)
  <2>1. "queue" \notin k2 /\ IsFiniteSet(k2)
    BY <1>3, <1>6
  <2>2. k3 = k2 \cup (IF p3 THEN {"queue"} ELSE {})
    BY <1>2
  <2> QED
    BY <2>1, <2>2, AddOneIf
<1>8. IsFiniteSet(k4) /\ Cardinality(k4) = Cardinality(k3) + Bit(p4)
  <2>1. "table" \notin k3 /\ IsFiniteSet(k3)
    BY <1>3, <1>7
  <2>2. k4 = k3 \cup (IF p4 THEN {"table"} ELSE {})
    BY <1>2
  <2> QED
    BY <2>1, <2>2, AddOneIf
<1>9. IsFiniteSet(k5) /\ Cardinality(k5) = Cardinality(k4) + Bit(p5)
  <2>1. "timer" \notin k4 /\ IsFiniteSet(k4)
    BY <1>3, <1>8
  <2>2. k5 = k4 \cup (IF p5 THEN {"timer"} ELSE {})
    BY <1>2
  <2> QED
    BY <2>1, <2>2, AddOneIf
<1>10. HolderKinds(s) = k5
  BY <1>1, <1>2 DEF HolderKinds, Pending, Queued
<1>11. Cardinality(k5) = Bit(p1) + Bit(p2) + Bit(p3) + Bit(p4) + Bit(p5)
  BY <1>4, <1>5, <1>6, <1>7, <1>8, <1>9 DEF Bit
<1> QED
  BY <1>1, <1>10, <1>11 DEF Bit

LEMMA CountsAreHolders ==
  ASSUME ServerInv, NoOverput
  PROVE  RefCountIsHolders
<1> SUFFICES ASSUME NEW s \in Children
             PROVE  child[s].refs = Cardinality(HolderKinds(s)) + Cardinality(Works(s))
  BY DEF RefCountIsHolders
<1>1. Cardinality(Works(s)) = W(s) /\ W(s) \in Nat
  <2>1. serverWork \in [Clients -> Seq(Work)]
    BY Typed DEF ServerInv
  <2>2. Works(s) = WorksIn(serverWork, s)
    BY <2>1, WorksAre
  <2> QED
    BY <2>2, WIsNat DEF ServerInv, W
<1>2. child[s].refs = HeldBy(child[s], s, Pending, Queued, W(s))
  BY DEF ServerInv, Family, ChildOK, Overput, NoOverput
<1> QED
  BY <1>1, <1>2, HolderKindsAre DEF HeldBy, Bit

\* Whatever the environment does, the count of a child is the number of those who
\* have it, as long as no reset comes for a pending child: all the puts of
\* VSockVmciRecvListen, VSockVmciPendingWork, VSockVmciAccept and
\* __VSockVmciRelease are of references somebody had.
THEOREM CountsAreExact ==
  HandshakeSpec /\ []PendingConnect => []RefCountIsHolders
<1>1. HandshakeInit => NoOverput
  <2>1. Free.refs # -1
    BY DEF Free
  <2> QED
    BY <2>1 DEF HandshakeInit, NoOverput
<1>2. HalfOpenInv /\ PendingConnect /\ NoOverput /\ [HandshakeNext]_handshakeVars => NoOverput'
  <2> SUFFICES ASSUME HalfOpenInv, PendingConnect, NoOverput, [HandshakeNext]_handshakeVars PROVE NoOverput'
    OBVIOUS
  <2>1. CASE HandshakeNext
    BY <2>1, StepOfASide, CountsAreKept DEF HalfOpenInv
  <2>2. CASE UNCHANGED handshakeVars
    BY <2>2 DEF handshakeVars, NoOverput
  <2> QED
    BY <2>1, <2>2
<1>3. HalfOpenInv /\ NoOverput => RefCountIsHolders
  BY CountsAreHolders DEF HalfOpenInv
<1> QED
  BY <1>1, <1>2, <1>3, HalfOpenInvariant, PTL DEF HandshakeSpec

-----------------------------------------------------------------------------
(* How far a client has got that connects once and has patience: what is under
   way between it and the listener is what the next of them waits for *)

Patient == MaxConnects <= 1 /\ "give_up" \notin May /\ "refuse" \notin May

ListenWork(type) == [on |-> Listener, type |-> type]
NonePending(c) == \A s \in Pending : child[s].remote # c

\* It waits for an answer.
Quiet(c) ==
  /\ client[c].open /\ client[c].state = "connecting" /\ client[c].sock = "connecting"
  /\ ~client[c].err /\ client[c].calls = 1 /\ ~Attached(c)

Fresh(c) ==
  /\ client[c].calls = 0 /\ client[c].sock = "unconnected" /\ client[c].state = "unconnected"
  /\ ~client[c].waits /\ ~client[c].err /\ ~client[c].qp /\ ~Attached(c) /\ NonePending(c)
  /\ toServer[c] = <<>> /\ serverWork[c] = <<>> /\ toClient[c] = <<>> /\ clientWork[c] = <<>>

Asked(c) ==
  /\ Quiet(c) /\ ~client[c].qp /\ NonePending(c) /\ toClient[c] = <<>> /\ clientWork[c] = <<>>
  /\ \/ toServer[c] = <<"REQUEST">> /\ serverWork[c] = <<>>
     \/ toServer[c] = <<>> /\ serverWork[c] = <<ListenWork("REQUEST")>>

Negotiated(c) ==
  /\ Quiet(c) /\ ~client[c].qp /\ toServer[c] = <<>> /\ serverWork[c] = <<>>
  /\ \/ toClient[c] = <<"NEGOTIATE">> /\ clientWork[c] = <<>>
     \/ toClient[c] = <<>> /\ clientWork[c] = <<"NEGOTIATE">>

Offered(c) ==
  /\ Quiet(c) /\ client[c].qp /\ toClient[c] = <<>> /\ clientWork[c] = <<>>
  /\ \/ toServer[c] = <<"OFFER">> /\ serverWork[c] = <<>>
     \/ toServer[c] = <<>> /\ serverWork[c] = <<ListenWork("OFFER")>>

\* It is connected or was refused, or its child was given up by the timer: it has
\* no pending child, or the listener does nothing for it any more.
Beyond(c) ==
  /\ client[c].calls = 1 /\ "REQUEST" \notin Range(toServer[c])
  /\ \A x \in Range(serverWork[c]) : x.type # "REQUEST"
  /\ \/ NonePending(c)
     \/ ~listener.open /\ \A x \in Range(serverWork[c]) : x.on # Listener

Connects(c) == \A s \in Pending : child[s].remote = c => child[s].state = "connecting"

Stage(c) ==
  /\ Fresh(c) \/ Asked(c) \/ Negotiated(c) \/ Offered(c) \/ Beyond(c)
  /\ Connects(c)

Stages == \A c \in Clients : Stage(c)

\* The pending child of a client is the one it was.
KeptFor(c) == \A s \in Pending' : child'[s].remote = c => s \in Pending /\ child'[s] = child[s]

\* A step that is not this client's: a client that has an end may be told of its end.
AsideOf(c) ==
  /\ client'[c] = client[c] /\ toServer'[c] = toServer[c] /\ serverWork'[c] = serverWork[c]
  /\ clientWork'[c] = clientWork[c]
  /\ toClient'[c] = toClient[c] \/ Attached(c)
  /\ listener'.open => listener.open
  /\ KeptFor(c)

\* An end that is new is told of.
NoNewEnd(c) == Attached(c)' => Attached(c) \/ "ATTACH" \in Range(toClient'[c])

LEMMA NoNewEnds ==
  ASSUME ServerStep \/ ClientStep, NEW c \in Clients
  PROVE  NoNewEnd(c)
<1>1. CASE ServerStep
  BY <1>1 DEF ServerStep, NoNewEnd, Attached
<1>2. CASE ClientStep
  BY <1>2 DEF ClientStep, NoNewEnd, Attached
<1> QED
  BY <1>1, <1>2

LEMMA RangeOne == Range(<<>>) = {} /\ \A x : Range(<<x>>) = {x}
  BY DEF Range

LEMMA KeptConnects ==
  ASSUME NEW c \in Clients, KeptFor(c), Connects(c)
  PROVE  Connects(c)' /\ (NonePending(c) => NonePending(c)')
  BY DEF KeptFor, Connects, NonePending

\* A client whose child is gone stays beyond.
LEMMA BeyondStays ==
  ASSUME NEW c \in Clients, Beyond(c), client'[c].calls = client[c].calls,
         "REQUEST" \notin Range(toServer'[c]),
         \A x \in Range(serverWork'[c]) :
           x.type # "REQUEST" /\ (x \in Range(serverWork[c]) \/ x.on # Listener \/ listener.open),
         NonePending(c) => NonePending(c)',
         listener'.open => listener.open
  PROVE  Beyond(c)'
  BY DEF Beyond

LEMMA AsideStage ==
  ASSUME NEW c \in Clients, Stage(c), AsideOf(c), NoNewEnd(c)
  PROVE  Stage(c)'
<1>1. Connects(c)' /\ (NonePending(c) => NonePending(c)')
  BY KeptConnects DEF Stage, AsideOf
<1>2. CASE Beyond(c)
  BY <1>1, <1>2, BeyondStays DEF Stage, AsideOf, Beyond
<1>3. CASE Fresh(c) \/ Asked(c) \/ Negotiated(c) \/ Offered(c)
  <2>0. ~Attached(c) /\ (toClient[c] = <<>> \/ toClient[c] = <<"NEGOTIATE">>)
    BY <1>3 DEF Fresh, Asked, Negotiated, Offered, Quiet
  <2>1. ~Attached(c) /\ "ATTACH" \notin Range(toClient[c])
    <3>1. "ATTACH" \notin Range(<<>>) /\ "ATTACH" \notin Range(<<"NEGOTIATE">>)
      BY RangeOne
    <3> QED
      BY <2>0, <3>1
  <2>2. toClient'[c] = toClient[c] /\ ~Attached(c)'
    BY <2>1 DEF AsideOf, NoNewEnd
  <2>3. CASE Fresh(c)
    BY <1>1, <2>2, <2>3 DEF Fresh, AsideOf, Stage
  <2>4. Quiet(c) => Quiet(c)'
    BY <2>2 DEF Quiet, AsideOf
  <2>5. CASE Asked(c)
    BY <1>1, <2>2, <2>4, <2>5 DEF Asked, AsideOf, Stage
  <2>6. CASE Negotiated(c)
    BY <1>1, <2>2, <2>4, <2>6 DEF Negotiated, AsideOf, Stage
  <2>7. CASE Offered(c)
    BY <1>1, <2>2, <2>4, <2>7 DEF Offered, AsideOf, Stage
  <2> QED
    BY <1>3, <2>3, <2>5, <2>6, <2>7
<1> QED
  BY <1>2, <1>3 DEF Stage

-----------------------------------------------------------------------------
(* Whom a step is not about *)

\* A pending child is known by its client, and is touched by nobody else.
LEMMA PendingIs ==
  ASSUME ServerInv, NEW s \in Pending
  PROVE  /\ s \in Children /\ child[s] # Free /\ child[s].remote \in Clients /\ child[s].timer
         /\ ~child[s].qp /\ ~child[s].table /\ s \notin Queued /\ W(s) = 0
         /\ child[s].owner \in {"kernel", "none"}
         /\ child[s].state = "connecting" \/ child[s].owner = "none"
<1>1. s \in Children
  BY Typed DEF ServerInv
<1>2. ChildOK(child[s], s, Pending, Queued, W(s))
  BY <1>1 DEF ServerInv, Family
<1> QED
  BY <1>1, <1>2 DEF ChildOK, Free

LEMMA KeptByClient ==
  ASSUME UNCHANGED <<child, listener>>, NEW c
  PROVE  KeptFor(c) /\ (listener'.open => listener.open)
  BY DEF KeptFor, Pending

\* A step of a client is not about another.
LEMMA ClientIsAside ==
  ASSUME ServerInv, NEW c \in Clients, NEW d \in Clients, d # c,
         \/ Connect(c) \/ ConnectAgain(c) \/ ConnectReturns(c) \/ CloseClient(c)
         \/ ArriveAtClient(c) \/ ClientWorks(c)
  PROVE  AsideOf(d)
<1>0. /\ client \in [Clients -> Client] /\ toServer \in [Clients -> Seq(Packet)]
      /\ toClient \in [Clients -> Seq(Packet)] /\ clientWork \in [Clients -> Seq(Packet)]
  BY Typed DEF ServerInv
<1>1. UNCHANGED <<child, listener, serverWork>>
  BY DEF Connect, ConnectAgain, ConnectReturns, CloseClient, ArriveAtClient, ClientWorks
<1>2. client'[d] = client[d] /\ toServer'[d] = toServer[d] /\ toClient'[d] = toClient[d] /\ clientWork'[d] = clientWork[d]
  <2>1. CASE Connect(c)
    BY <1>0, <2>1 DEF Connect
  <2>2. CASE ConnectAgain(c)
    BY <1>0, <2>2 DEF ConnectAgain
  <2>3. CASE ConnectReturns(c)
    BY <1>0, <2>3 DEF ConnectReturns
  <2>4. CASE CloseClient(c)
    BY <1>0, <2>4 DEF CloseClient
  <2>5. CASE ArriveAtClient(c)
    BY <1>0, <2>5 DEF ArriveAtClient
  <2>6. CASE ClientWorks(c)
    BY <1>0, <2>6 DEF ClientWorks
  <2> QED
    BY <2>1, <2>2, <2>3, <2>4, <2>5, <2>6
<1> QED
  BY <1>1, <1>2, KeptByClient DEF AsideOf

\* What arrives at the listener's side, and a work on a child, touch no pending child.
LEMMA ArriveKeepsPending ==
  ASSUME ServerInv, NEW c \in Clients, ArriveAtServer(c)
  PROVE  UNCHANGED listener /\ \A s \in Pending : child'[s] = child[s]
<1>0. child \in [Children -> Child]
  BY Typed DEF ServerInv
<1>1. UNCHANGED listener
  BY DEF ArriveAtServer
<1>2. ASSUME NEW s \in Pending PROVE child'[s] = child[s]
  <2>1. s \in Children /\ ~child[s].qp /\ ~child[s].table
    BY PendingIs
  <2>2. \/ \E data \in BOOLEAN :
             child' = [t \in Children |-> IF t \in {u \in Children : child[u].remote = c /\ child[u].qp}
                                          THEN Detached(child[t], data) ELSE child[t]]
        \/ \E t \in Children : child[t].table /\ child' = [child EXCEPT ![t].refs = @ + 1]
        \/ child' = child
    BY DEF ArriveAtServer
  <2> QED
    BY <1>0, <2>1, <2>2
<1> QED
  BY <1>1, <1>2

LEMMA ChildWorksKeepsPending ==
  ASSUME ServerInv, NEW c \in Clients, ChildWorks(c)
  PROVE  UNCHANGED listener /\ \A s \in Pending : child'[s] = child[s]
<1>0. child \in [Children -> Child]
  BY Typed DEF ServerInv
<1>1. UNCHANGED listener
  BY DEF ChildWorks
<1>2. PICK i \in DOMAIN serverWork[c], data \in BOOLEAN :
        /\ serverWork[c][i].on # Listener
        /\ child' = [child EXCEPT ![serverWork[c][i].on] =
              Put(IF child[serverWork[c][i].on].state = "connected" /\ serverWork[c][i].type = "RST"
                  THEN ResetConnected(child[serverWork[c][i].on], data)
                  ELSE child[serverWork[c][i].on], 1)]
  BY DEF ChildWorks
<1>a. PICK t, m :
        /\ t = serverWork[c][i].on
        /\ m = Put(IF child[t].state = "connected" /\ serverWork[c][i].type = "RST"
                   THEN ResetConnected(child[t], data) ELSE child[t], 1)
  OBVIOUS
<1>b. t # Listener /\ child' = WithChild(t, m)
  BY <1>2, <1>a DEF WithChild
<1>3. t \in Children
  BY <1>a, <1>b, WorkIs DEF ServerInv
<1>4. W(t) # 0
  BY <1>a, <1>3, WorkedOn DEF W
<1>5. ASSUME NEW s \in Pending PROVE child'[s] = child[s]
  <2>1. s \in Children /\ s # t
    BY <1>4, PendingIs
  <2> QED
    BY <1>0, <1>b, <2>1 DEF WithChild
<1> QED
  BY <1>1, <1>5

\* A step of the listener's side that puts a child is about its client.
LEMMA PutIsFor ==
  ASSUME NEW k, NEW n, NEW c \in Clients, Put(k, n).remote = c
  PROVE  k.remote = c
<1>1. CASE k.refs = n
  BY <1>1, FreeIsChild DEF Put
<1>2. CASE k.refs # n
  <2>1. PICK e : e = k.refs - n
    OBVIOUS
  <2>2. Put(k, n) = [k EXCEPT !.refs = e]
    BY <1>2, <2>1 DEF Put
  <2>3. [k EXCEPT !.refs = e].remote = k.remote
    OBVIOUS
  <2> QED
    BY <2>2, <2>3
<1> QED
  BY <1>1, <1>2

\* What a packet from one client does is not about another.
LEMMA PacketIsAside ==
  ASSUME ServerInv, NEW c \in Clients, NEW d \in Clients, d # c, ArriveAtServer(c) \/ ChildWorks(c)
  PROVE  AsideOf(d)
<1>0. /\ toServer \in [Clients -> Seq(Packet)] /\ toClient \in [Clients -> Seq(Packet)]
      /\ serverWork \in [Clients -> Seq(Work)]
  BY Typed DEF ServerInv
<1>1. UNCHANGED listener /\ \A s \in Pending : child'[s] = child[s]
  BY ArriveKeepsPending, ChildWorksKeepsPending
<1>2. KeptFor(d) /\ (listener'.open => listener.open)
  BY <1>1 DEF KeptFor, Pending
<1>3. client'[d] = client[d] /\ toServer'[d] = toServer[d] /\ toClient'[d] = toClient[d]
      /\ clientWork'[d] = clientWork[d] /\ serverWork'[d] = serverWork[d]
  <2>1. CASE ArriveAtServer(c)
    <3>1. UNCHANGED <<client, clientWork>> /\ toServer'[d] = toServer[d]
      BY <1>0, <2>1 DEF ArriveAtServer
    <3>2. (toClient' = toClient \/ \E x : toClient' = [toClient EXCEPT ![c] = x])
      BY <2>1 DEF ArriveAtServer
    <3>3. (serverWork' = serverWork \/ \E x : serverWork' = [serverWork EXCEPT ![c] = x])
      BY <2>1 DEF ArriveAtServer
    <3> QED
      BY <1>0, <3>1, <3>2, <3>3
  <2>2. CASE ChildWorks(c)
    BY <1>0, <2>2 DEF ChildWorks
  <2> QED
    BY <2>1, <2>2
<1> QED
  BY <1>2, <1>3 DEF AsideOf

LEMMA ListenerIsAside ==
  ASSUME ServerInv, NEW c \in Clients, NEW d \in Clients, d # c, ListenerWorks(c)
  PROVE  AsideOf(d)
<1>0. /\ child \in [Children -> Child] /\ toClient \in [Clients -> Seq(Packet)]
      /\ serverWork \in [Clients -> Seq(Work)] /\ Pending \subseteq Children
      /\ listener.pending \in Seq(Children)
  BY Typed DEF ServerInv
<1>1. PICK i \in DOMAIN serverWork[c] :
        /\ serverWork[c][i].on = Listener
        /\ serverWork' = [serverWork EXCEPT ![c] = RemoveAt(@, i)]
        /\ \/ \E s \in {s \in Range(listener.pending) : child[s].remote = c} :
                ListenForPending(c, s, serverWork[c][i].type)
           \/ /\ {s \in Range(listener.pending) : child[s].remote = c} = {}
              /\ ListenToRequest(c, serverWork[c][i].type)
        /\ UNCHANGED <<client, toServer, clientWork>>
  BY DEF ListenerWorks
<1>2. PICK type \in Packet : type = serverWork[c][i].type
  BY WorkIs DEF ServerInv
<1>3. ASSUME NEW s \in Pending, child[s].remote = c, ListenForPending(c, s, type)
      PROVE  toClient'[d] = toClient[d] /\ KeptFor(d) /\ (listener'.open => listener.open)
  <2>1. PICK m : child' = WithChild(s, m) /\ (m.remote = d => FALSE)
    <3>1. CASE child[s].state = "connecting" /\ type = "OFFER" /\ MayAttach(c)
      <4>1. child' = WithChild(s, AttachedChild(child[s]))
        BY <1>0, <1>3, <3>1 DEF ListenForPending, WithChild, AttachedChild
      <4>2. AttachedChild(child[s]).remote = c
        BY <1>0, <1>3 DEF AttachedChild, Child
      <4> QED
        BY <4>1, <4>2
    <3>2. CASE ~(child[s].state = "connecting" /\ type = "OFFER" /\ MayAttach(c))
      <4>1. PICK k, n : child' = WithChild(s, Put(k, n)) /\ k.remote = c
        <5>1. CASE child[s].state = "connecting"
          <6>1. child' = WithChild(s, Put(GivenUp(child[s]), (IF type = "RST" THEN 0 ELSE 1) + 1))
            BY <1>3, <3>2, <5>1 DEF ListenForPending, WithChild, GivenUp
          <6>2. GivenUp(child[s]).remote = c
            BY <1>0, <1>3 DEF GivenUp, Child
          <6> QED
            BY <6>1, <6>2
        <5>2. CASE child[s].state # "connecting"
          <6>1. child' = WithChild(s, Put(child[s], 1))
            BY <1>3, <5>2 DEF ListenForPending, WithChild
          <6> QED
            BY <1>3, <6>1
        <5> QED
          BY <5>1, <5>2
      <4>2. Put(k, n).remote # d
        BY <4>1, PutIsFor
      <4> QED
        BY <4>1, <4>2
    <3> QED
      BY <3>1, <3>2
  <2>2. /\ Pending' \subseteq Pending /\ (listener'.open => listener.open)
    <3>1. \/ listener' = Attaching(s)
          \/ listener' = listener
          \/ listener' = Unlisting(s)
      BY <1>3 DEF ListenForPending, Attaching, Unlisting
    <3>2. Range(RemoveFirst(listener.pending, s)) \subseteq Pending
      BY <1>0, RemoveFirstIs DEF ServerInv, Lists, Pending
    <3>3. PICK q, a : q = RemoveFirst(listener.pending, s) /\ a = Append(listener.acceptQueue, s)
      OBVIOUS
    <3>4. PICK l \in [open : BOOLEAN, failed : BOOLEAN, pending : Seq(Children),
                      acceptQueue : Seq(Children), backlog : Int] : l = listener
      BY DEF ServerInv, HandshakeTypeOK
    <3>5. \/ listener' = [l EXCEPT !.pending = q, !.acceptQueue = a]
          \/ listener' = l
          \/ listener' = [l EXCEPT !.pending = q]
      BY <3>1, <3>3, <3>4 DEF Attaching, Unlisting
    <3>6. (listener'.pending = q \/ listener'.pending = l.pending) /\ listener'.open = l.open
      BY <3>4, <3>5
    <3> QED
      BY <3>2, <3>3, <3>4, <3>6 DEF Pending
  <2>3. toClient'[d] = toClient[d]
    BY <1>0, <1>3 DEF ListenForPending
  <2>4. KeptFor(d)
    <3> SUFFICES ASSUME NEW t \in Pending', child'[t].remote = d
                 PROVE  t \in Pending /\ child'[t] = child[t]
      BY DEF KeptFor
    <3>1. t \in Pending /\ t \in Children
      BY <1>0, <2>2
    <3>2. t # s
      BY <1>0, <2>1, <3>1 DEF WithChild
    <3> QED
      BY <1>0, <2>1, <3>1, <3>2 DEF WithChild
  <2> QED
    BY <2>2, <2>3, <2>4
<1>4. ASSUME ListenToRequest(c, type)
      PROVE  toClient'[d] = toClient[d] /\ KeptFor(d) /\ (listener'.open => listener.open)
  <2>1. toClient'[d] = toClient[d]
    BY <1>0, <1>4 DEF ListenToRequest
  <2>2. CASE UNCHANGED <<child, listener>>
    BY <2>1, <2>2, KeptByClient
  <2>3. ASSUME NEW s \in Children, child' = WithChild(s, NewChild(c)), listener' = Listing(s)
        PROVE  KeptFor(d) /\ (listener'.open => listener.open)
    <3>1. PICK q : q = Append(listener.pending, s)
      OBVIOUS
    <3>2. Range(q) = Pending \cup {s}
      BY <1>0, <3>1, AppendRange DEF Pending
    <3>3. PICK l \in [open : BOOLEAN, failed : BOOLEAN, pending : Seq(Children),
                      acceptQueue : Seq(Children), backlog : Int] : l = listener
      BY DEF ServerInv, HandshakeTypeOK
    <3>4. listener' = [l EXCEPT !.pending = q, !.backlog = @ + 1]
      BY <2>3, <3>1, <3>3 DEF Listing
    <3>5. listener'.pending = q /\ listener'.open = l.open
      BY <3>3, <3>4
    <3>6. NewChild(c).remote = c
      BY DEF NewChild, Free
    <3>7. ASSUME NEW t \in Pending', child'[t].remote = d
          PROVE  t \in Pending /\ child'[t] = child[t]
      <4>1. t \in Pending \/ t = s
        BY <3>2, <3>5 DEF Pending
      <4>2. t # s
        BY <1>0, <2>3, <3>6, <3>7 DEF WithChild
      <4> QED
        BY <1>0, <2>3, <4>1, <4>2 DEF WithChild
    <3> QED
      BY <3>3, <3>5, <3>7 DEF KeptFor
  <2>4. \/ UNCHANGED <<child, listener>>
        \/ \E s \in Children : child' = WithChild(s, NewChild(c)) /\ listener' = Listing(s)
    BY <1>4 DEF ListenToRequest, WithChild, Listing
  <2> QED
    BY <2>1, <2>2, <2>3, <2>4
<1>5. toClient'[d] = toClient[d] /\ KeptFor(d) /\ (listener'.open => listener.open)
  BY <1>1, <1>2, <1>3, <1>4 DEF Pending
<1> QED
  BY <1>0, <1>1, <1>5 DEF AsideOf

\* What timers, users and the end of the listener do is about no client that
\* has only a pending child, but for the child's leaving the list.
LEMMA ByeIsAside ==
  ASSUME ServerInv, NEW c \in Clients, NEW k, NEW n, k.qp => Attached(c),
         NEW g, g = Bye(toClient, c, k, n), NEW d \in Clients
  PROVE  g[d] = toClient[d] \/ Attached(d)
<1>0. toClient \in [Clients -> Seq(Packet)]
  BY Typed DEF ServerInv
<1>1. CASE d # c
  BY <1>0, <1>1 DEF Bye
<1>2. CASE d = c /\ ~k.qp
  <2>1. Farewell(k, n) = <<>>
    BY <1>2 DEF Farewell
  <2>2. g[d] = toClient[d] \o <<>>
    BY <1>0, <1>2, <2>1 DEF Bye
  <2>3. toClient[d] \in Seq(Packet)
    BY <1>0
  <2> QED
    BY <2>2, <2>3, ConcatEmptySeq
<1>3. CASE d = c /\ k.qp
  BY <1>3
<1> QED
  BY <1>1, <1>2, <1>3

LEMMA OneChildKept ==
  ASSUME ServerInv, NEW s \in Children, NEW m, child' = WithChild(s, m),
         Pending' \subseteq Pending, s \notin Pending', NEW d
  PROVE  KeptFor(d)
<1>1. child \in [Children -> Child] /\ Pending \subseteq Children
  BY Typed DEF ServerInv
<1>2. ASSUME NEW t \in Pending' PROVE t \in Pending /\ child'[t] = child[t]
  <2>1. t \in Pending /\ t \in Children /\ t # s
    BY <1>1
  <2> QED
    BY <1>1, <2>1 DEF WithChild
<1> QED
  BY <1>2 DEF KeptFor

LEMMA PendingWorkIsAside ==
  ASSUME ServerInv, NEW s \in Children, PendingWork(s), NEW d \in Clients
  PROVE  AsideOf(d)
<1>0. child \in [Children -> Child] /\ toClient \in [Clients -> Seq(Packet)] /\ listener.backlog \in Int
  BY Typed DEF ServerInv
<1>1. PICK z, P : z = child[s] /\ P = Pending
  OBVIOUS
<1>2. z \in Child /\ ChildOK(z, s, P, Queued, W(s)) /\ z.timer
  BY <1>0, <1>1 DEF ServerInv, Family, PendingWork
<1>3. PICK c \in Clients : c = z.remote
  BY <1>2 DEF ChildOK, Free
<1>4. PICK k, n : /\ k = IF s \in P \/ z.rejected THEN TimedOut(z) ELSE [z EXCEPT !.timer = FALSE]
                  /\ n = (IF s \in P THEN 1 ELSE 0) + (IF s \in P \/ z.rejected THEN 2 ELSE 1)
                           + (IF (s \in P \/ z.rejected) /\ z.table THEN 1 ELSE 0)
  OBVIOUS
<1>5. k.remote = c /\ (k.qp => z.qp)
  <2>1. CASE k = TimedOut(z)
    BY <1>2, <1>3, <2>1 DEF Child, TimedOut
  <2>2. CASE k = [z EXCEPT !.timer = FALSE]
    BY <1>2, <1>3, <2>2 DEF Child
  <2> QED
    BY <1>4, <2>1, <2>2
<1>6. /\ child' = WithChild(s, Put(k, n))
      /\ listener' = IF s \in P \/ z.rejected
                     THEN [listener EXCEPT !.pending = RemoveFirst(@, s), !.backlog = @ - 1]
                     ELSE listener
      /\ toClient' = [e \in Clients |-> IF e = k.remote THEN toClient[e] \o Farewell(k, n) ELSE toClient[e]]
      /\ UNCHANGED <<client, toServer, serverWork, clientWork>>
  BY <1>1, <1>4 DEF PendingWork, WithChild, TimedOut, Pending
<1>7. toClient'[d] = toClient[d] \/ Attached(d)
  <2>1. toClient' = Bye(toClient, c, k, n)
    BY <1>0, <1>5, <1>6 DEF Bye
  <2>2. k.qp => Attached(c)
    BY <1>1, <1>3, <1>5 DEF Attached
  <2> QED
    BY <2>1, <2>2, ByeIsAside
<1>8. Pending' \subseteq Pending /\ s \notin Pending' /\ listener'.open = listener.open
  <2>1. CASE s \in P \/ z.rejected
    <3>1. PICK b \in Int : b = listener.backlog - 1
      BY <1>0
    <3>2. listener' = [listener EXCEPT !.pending = RemoveFirst(@, s), !.backlog = b]
      BY <1>6, <2>1, <3>1
    <3>3. Pending' = Pending \ {s}
      BY <3>2, ListenerWithout
    <3>4. PICK l \in [open : BOOLEAN, failed : BOOLEAN, pending : Seq(Children),
                      acceptQueue : Seq(Children), backlog : Int] : l = listener
      BY DEF ServerInv, HandshakeTypeOK
    <3>a. PICK q : q = RemoveFirst(listener.pending, s)
      OBVIOUS
    <3>5. listener' = [l EXCEPT !.pending = q, !.backlog = b]
      BY <3>2, <3>4, <3>a
    <3>6. listener'.open = l.open
      BY <3>4, <3>5
    <3> QED
      BY <3>3, <3>4, <3>6
  <2>2. CASE ~(s \in P \/ z.rejected)
    <3>1. listener' = listener
      BY <1>6, <2>2
    <3> QED
      BY <1>1, <2>2, <3>1 DEF Pending
  <2> QED
    BY <2>1, <2>2
<1>9. KeptFor(d)
  BY <1>6, <1>8, OneChildKept
<1> QED
  BY <1>6, <1>7, <1>8, <1>9 DEF AsideOf

LEMMA CloseAcceptedIsAside ==
  ASSUME ServerInv, NEW s \in Children, CloseAccepted(s), NEW d \in Clients
  PROVE  AsideOf(d)
<1>0. child \in [Children -> Child] /\ toClient \in [Clients -> Seq(Packet)]
  BY Typed DEF ServerInv
<1>1. PICK k, n, z : z = child[s] /\ k = Release(z, 0).child /\ n = Release(z, 0).drops
  OBVIOUS
<1>2. /\ z.owner = "user"
      /\ child' = WithChild(s, Put(k, n))
      /\ toClient' = Bye(toClient, z.remote, k, n)
      /\ UNCHANGED <<client, listener, toServer, serverWork, clientWork>>
  BY <1>1 DEF CloseAccepted, WithChild, Bye
<1>3. z \in Child /\ ChildOK(z, s, Pending, Queued, W(s))
  BY <1>0, <1>1 DEF ServerInv, Family
<1>4. s \notin Pending /\ z.remote \in Clients
  BY <1>2, <1>3 DEF ChildOK, Free
<1>5. PICK c \in Clients : c = z.remote
  BY <1>4
<1>6. k.qp => z.qp
  <2>1. k = [z EXCEPT !.table = FALSE, !.owner = "none"]
    BY <1>1 DEF Release
  <2> QED
    BY <1>3, <2>1 DEF Child
<1>7. toClient'[d] = toClient[d] \/ Attached(d)
  <2>1. k.qp => Attached(c)
    BY <1>1, <1>5, <1>6 DEF Attached
  <2>2. toClient' = Bye(toClient, c, k, n)
    BY <1>2, <1>5
  <2> QED
    BY <2>1, <2>2, ByeIsAside
<1>8. Pending' = Pending
  BY <1>2 DEF Pending
<1>9. KeptFor(d)
  BY <1>2, <1>4, <1>8, OneChildKept
<1> QED
  BY <1>2, <1>7, <1>9 DEF AsideOf

LEMMA AcceptIsAside ==
  ASSUME ServerInv, Accept, NEW d \in Clients
  PROVE  AsideOf(d)
<1>0. child \in [Children -> Child] /\ toClient \in [Clients -> Seq(Packet)]
      /\ listener.acceptQueue \in Seq(Children)
  BY Typed DEF ServerInv
<1>1. PICK s, k : /\ s = Head(listener.acceptQueue)
                  /\ k = IF listener.failed THEN [child[s] EXCEPT !.rejected = TRUE]
                         ELSE [child[s] EXCEPT !.owner = "user"]
  OBVIOUS
<1>2. /\ listener.acceptQueue # <<>>
      /\ child' = WithChild(s, Put(k, 1))
      /\ toClient' = Bye(toClient, k.remote, k, 1)
      /\ listener' = [listener EXCEPT !.acceptQueue = Tail(@), !.backlog = @ - 1]
      /\ UNCHANGED <<client, toServer, serverWork, clientWork>>
  BY <1>1 DEF Accept, WithChild, Bye
<1>3. s \in Queued /\ s \in Children
  BY <1>0, <1>1, <1>2, TailRange DEF ServerInv, Lists, Queued
<1>4. PICK z : z = child[s]
  OBVIOUS
<1>5. z \in Child /\ ChildOK(z, s, Pending, Queued, W(s))
  BY <1>0, <1>3, <1>4 DEF ServerInv, Family
<1>6. z.owner = "kernel" /\ z.remote \in Clients /\ s \notin Pending
  BY <1>3, <1>5 DEF ChildOK, Free
<1>7. PICK c \in Clients : c = z.remote
  BY <1>6
<1>8. k = [z EXCEPT !.rejected = TRUE] \/ k = [z EXCEPT !.owner = "user"]
  BY <1>1, <1>4
<1>9. k.remote = c /\ (k.qp => z.qp)
  BY <1>5, <1>7, <1>8 DEF Child
<1>10. toClient'[d] = toClient[d] \/ Attached(d)
  <2>1. k.qp => Attached(c)
    BY <1>3, <1>4, <1>7, <1>9 DEF Attached
  <2>2. toClient' = Bye(toClient, c, k, 1)
    BY <1>2, <1>9
  <2> QED
    BY <2>1, <2>2, ByeIsAside
<1>11. Pending' = Pending /\ listener'.open = listener.open
  <2>1. PICK l \in [open : BOOLEAN, failed : BOOLEAN, pending : Seq(Children),
                    acceptQueue : Seq(Children), backlog : Int] : l = listener
    BY DEF ServerInv, HandshakeTypeOK
  <2>a. PICK q, b : q = Tail(listener.acceptQueue) /\ b = listener.backlog - 1
    OBVIOUS
  <2>2. listener' = [l EXCEPT !.acceptQueue = q, !.backlog = b]
    BY <1>2, <2>1, <2>a
  <2>3. listener'.pending = l.pending /\ listener'.open = l.open
    BY <2>1, <2>2
  <2> QED
    BY <2>1, <2>3 DEF Pending
<1>12. KeptFor(d)
  BY <1>2, <1>3, <1>6, <1>11, OneChildKept
<1> QED
  BY <1>2, <1>10, <1>11, <1>12 DEF AsideOf

LEMMA CloseListenerIsAside ==
  ASSUME ServerInv, CloseListener, NEW d \in Clients
  PROVE  AsideOf(d)
<1>0. child \in [Children -> Child] /\ toClient \in [Clients -> Seq(Packet)]
      /\ Queued \subseteq Children /\ Pending \subseteq Children
  BY Typed DEF ServerInv
<1>1. PICK k : k = [s \in Queued |-> Release(child[s], 1).child]
  OBVIOUS
<1>2. PICK n : n = [s \in Queued |-> Release(child[s], 1).drops]
  OBVIOUS
<1>3. /\ child' = [s \in Children |-> IF s \in Queued THEN Put(k[s], n[s]) ELSE child[s]]
      /\ listener' = [listener EXCEPT !.open = FALSE, !.acceptQueue = <<>>]
      /\ toClient' = [c \in Clients |->
           toClient[c] \o (IF \E s \in Queued : k[s].remote = c /\ Farewell(k[s], n[s]) # <<>>
                           THEN <<"DETACH">> ELSE <<>>)]
      /\ UNCHANGED <<client, toServer, serverWork, clientWork>>
  BY <1>1, <1>2 DEF CloseListener, Queued
<1>4. ASSUME NEW s \in Queued, k[s].remote = d, Farewell(k[s], n[s]) # <<>>
      PROVE  Attached(d)
  <2>1. PICK z, y : z = child[s] /\ y = k[s] /\ y = [z EXCEPT !.table = FALSE, !.owner = "none"]
    BY <1>1 DEF Release
  <2>2. z \in Child /\ y.qp
    BY <1>0, <1>4, <2>1 DEF Farewell
  <2>3. z.remote = d /\ z.qp
    BY <1>4, <2>1, <2>2 DEF Child
  <2> QED
    BY <1>0, <2>1, <2>3 DEF Attached
<1>5. toClient'[d] = toClient[d] \/ Attached(d)
  <2>1. CASE \E s \in Queued : k[s].remote = d /\ Farewell(k[s], n[s]) # <<>>
    BY <1>4, <2>1
  <2>2. CASE ~\E s \in Queued : k[s].remote = d /\ Farewell(k[s], n[s]) # <<>>
    <3>1. toClient'[d] = toClient[d] \o <<>>
      BY <1>0, <1>3, <2>2
    <3>2. toClient[d] \in Seq(Packet)
      BY <1>0
    <3> QED
      BY <3>1, <3>2, ConcatEmptySeq
  <2> QED
    BY <2>1, <2>2
<1>6. Pending' = Pending /\ ~listener'.open
  <2>1. PICK l \in [open : BOOLEAN, failed : BOOLEAN, pending : Seq(Children),
                    acceptQueue : Seq(Children), backlog : Int] : l = listener
    BY DEF ServerInv, HandshakeTypeOK
  <2>2. listener' = [l EXCEPT !.open = FALSE, !.acceptQueue = <<>>]
    BY <1>3, <2>1
  <2>3. listener'.pending = l.pending /\ ~listener'.open
    BY <2>1, <2>2
  <2> QED
    BY <2>1, <2>3 DEF Pending
<1>7. KeptFor(d)
  <2>1. \A s \in Pending : s \notin Queued /\ s \in Children
    BY PendingIs
  <2> QED
    BY <1>3, <1>6, <2>1 DEF KeptFor
<1> QED
  BY <1>3, <1>5, <1>6, <1>7 DEF AsideOf

-----------------------------------------------------------------------------
(* What a client does itself *)

LEMMA Single ==
  ASSUME NEW x
  PROVE  /\ Append(<<>>, x) = <<x>> /\ <<>> \o <<x>> = <<x>> /\ <<>> \o <<>> = <<>>
         /\ Head(<<x>>) = x /\ Tail(<<x>>) = <<>> /\ <<x>> # <<>>
         /\ DOMAIN <<x>> = {1} /\ <<x>>[1] = x /\ RemoveAt(<<x>>, 1) = <<>> /\ DOMAIN <<>> = {}
<1>1. Append(<<>>, x) = <<x>> /\ <<>> \o <<x>> = <<x>> /\ <<>> \o <<>> = <<>>
  OBVIOUS
<1>2. Head(<<x>>) = x /\ Tail(<<x>>) = <<>> /\ <<x>> # <<>>
  OBVIOUS
<1>3. DOMAIN <<x>> = {1} /\ <<x>>[1] = x /\ DOMAIN <<>> = {}
  OBVIOUS
<1>4. RemoveAt(<<x>>, 1) = <<>>
  <2>1. SubSeq(<<x>>, 1, 0) = <<>> /\ SubSeq(<<x>>, 2, 1) = <<>> /\ Len(<<x>>) = 1
    OBVIOUS
  <2> QED
    BY <1>1, <2>1 DEF RemoveAt
<1> QED
  BY <1>1, <1>2, <1>3, <1>4

\* The listener's side is what it was.
LEMMA ServersAreStill ==
  ASSUME UNCHANGED <<child, listener>>, NEW c
  PROVE  /\ Attached(c)' <=> Attached(c)
         /\ NonePending(c)' <=> NonePending(c)
         /\ Connects(c)' <=> Connects(c)
  BY DEF Attached, NonePending, Connects, Pending

LEMMA BeyondOfClient ==
  ASSUME NEW c \in Clients, Stage(c), Beyond(c), UNCHANGED <<child, listener, serverWork>>,
         client'[c].calls = client[c].calls, "REQUEST" \notin Range(toServer'[c])
  PROVE  Stage(c)'
<1>1. Connects(c)' /\ (NonePending(c) => NonePending(c)')
  BY ServersAreStill DEF Stage
<1>2. Beyond(c)'
  BY <1>1, BeyondStays DEF Beyond
<1> QED
  BY <1>1, <1>2 DEF Stage

\* A client that waits for an answer does not give up.
LEMMA QuietIsPatient ==
  ASSUME Patient, NEW c \in Clients, Stage(c), ~Fresh(c), ~Beyond(c)
  PROVE  /\ Quiet(c) /\ ~MayGiveUp(c) /\ toServer[c] \in {<<>>, <<"REQUEST">>, <<"OFFER">>}
<1>1. /\ Quiet(c) /\ (toClient[c] = <<>> \/ toClient[c] = <<"NEGOTIATE">>)
      /\ toServer[c] \in {<<>>, <<"REQUEST">>, <<"OFFER">>}
  BY DEF Stage, Asked, Negotiated, Offered
<1>2. "ATTACH" \notin Range(toClient[c])
  <2>1. "ATTACH" \notin Range(<<>>) /\ "ATTACH" \notin Range(<<"NEGOTIATE">>)
    BY RangeOne
  <2> QED
    BY <1>1, <2>1
<1> QED
  BY <1>1, <1>2 DEF MayGiveUp, Patient

LEMMA ConnectStage ==
  ASSUME ServerInv, Patient, NEW c \in Clients, Stage(c), Connect(c)
  PROVE  Stage(c)'
<1>0. /\ client \in [Clients -> Client] /\ toServer \in [Clients -> Seq(Packet)]
  BY Typed DEF ServerInv
<1>1. PICK k \in Client : k = client[c]
  BY <1>0
<1>2. k.calls = 0
  BY <1>1, HandshakeAssumption DEF Connect, Patient, Client
<1>3. Fresh(c) /\ Connects(c)
  BY <1>1, <1>2 DEF Stage, Asked, Negotiated, Offered, Beyond, Quiet
<1>4. PICK waits \in BOOLEAN :
        client' = [client EXCEPT ![c] =
          IF client[c].err THEN [client[c] EXCEPT !.state = "unconnected", !.calls = client[c].calls + 1]
          ELSE [client[c] EXCEPT !.state = "connecting", !.sock = "connecting", !.waits = waits,
                                 !.calls = client[c].calls + 1]]
  BY DEF Connect
<1>5. PICK m : m = [k EXCEPT !.state = "connecting", !.sock = "connecting", !.waits = waits,
                             !.calls = k.calls + 1]
  OBVIOUS
<1>6. client'[c] = m
  BY <1>0, <1>1, <1>3, <1>4, <1>5 DEF Fresh
<1>7. /\ m.open /\ m.state = "connecting" /\ m.sock = "connecting" /\ ~m.err /\ m.calls = 1 /\ ~m.qp
  <2>1. k.open /\ ~k.err /\ ~k.qp
    BY <1>1, <1>3 DEF Connect, Fresh
  <2>2. m = [k EXCEPT !.state = "connecting", !.sock = "connecting", !.waits = waits, !.calls = 1]
    BY <1>2, <1>5
  <2> QED
    BY <2>1, <2>2 DEF Client
<1>8. /\ UNCHANGED <<child, listener, toClient, serverWork, clientWork>>
      /\ toServer'[c] = Append(toServer[c], "REQUEST")
  BY <1>0 DEF Connect
<1>9. toServer'[c] = <<"REQUEST">>
  BY <1>3, <1>8, Single DEF Fresh
<1>10. ~Attached(c)' /\ NonePending(c)' /\ Connects(c)'
  BY <1>3, <1>8, ServersAreStill DEF Fresh
<1>11. Asked(c)'
  BY <1>3, <1>6, <1>7, <1>8, <1>9, <1>10 DEF Asked, Quiet, Fresh
<1> QED
  BY <1>10, <1>11 DEF Stage

LEMMA ConnectAgainStage ==
  ASSUME ServerInv, Patient, NEW c \in Clients, Stage(c), ConnectAgain(c)
  PROVE  Stage(c)'
<1>0. client \in [Clients -> Client]
  BY Typed DEF ServerInv
<1>1. PICK k \in Client : k = client[c]
  BY <1>0
<1>2. PICK m : m = [k EXCEPT !.waits = TRUE]
  OBVIOUS
<1>3. /\ client'[c] = m /\ k.sock = "connecting"
      /\ UNCHANGED <<child, listener, toServer, toClient, serverWork, clientWork>>
  BY <1>0, <1>1, <1>2 DEF ConnectAgain
<1>4. /\ (m.open <=> k.open) /\ m.state = k.state /\ m.sock = k.sock /\ (m.err <=> k.err)
      /\ m.calls = k.calls /\ (m.qp <=> k.qp)
  BY <1>2 DEF Client
<1>5. CASE Beyond(c)
  BY <1>1, <1>3, <1>4, <1>5, BeyondOfClient DEF Beyond
<1>6. CASE ~Beyond(c)
  <2>1. Asked(c) \/ Negotiated(c) \/ Offered(c)
    BY <1>1, <1>3, <1>6 DEF Stage, Fresh
  <2>2. /\ Attached(c)' <=> Attached(c)
        /\ NonePending(c)' <=> NonePending(c)
        /\ Connects(c)'
    BY <1>3, ServersAreStill DEF Stage
  <2>3. Quiet(c) => Quiet(c)'
    BY <1>1, <1>3, <1>4, <2>2 DEF Quiet
  <2>4. CASE Asked(c)
    BY <1>1, <1>3, <1>4, <2>2, <2>3, <2>4 DEF Asked, Stage
  <2>5. CASE Negotiated(c)
    BY <1>1, <1>3, <1>4, <2>2, <2>3, <2>5 DEF Negotiated, Stage
  <2>6. CASE Offered(c)
    BY <1>1, <1>3, <1>4, <2>2, <2>3, <2>6 DEF Offered, Stage
  <2> QED
    BY <2>1, <2>4, <2>5, <2>6
<1> QED
  BY <1>5, <1>6

LEMMA ConnectReturnsStage ==
  ASSUME ServerInv, Patient, NEW c \in Clients, Stage(c), ConnectReturns(c)
  PROVE  Stage(c)'
<1>0. client \in [Clients -> Client]
  BY Typed DEF ServerInv
<1>1. PICK k \in Client : k = client[c]
  BY <1>0
<1>2. PICK givesUp \in {FALSE, MayGiveUp(c)} :
        /\ givesUp \/ k.state = "connected" \/ k.err
        /\ client' = [client EXCEPT ![c] =
             IF givesUp \/ k.err
             THEN [k EXCEPT !.waits = FALSE, !.state = "unconnected", !.sock = "unconnected"]
             ELSE [k EXCEPT !.waits = FALSE]]
  BY <1>1 DEF ConnectReturns
<1>3. k.waits /\ UNCHANGED <<child, listener, toServer, toClient, serverWork, clientWork>>
  BY <1>1 DEF ConnectReturns
<1>4. Beyond(c)
  <2>1. ~Fresh(c)
    BY <1>1, <1>3 DEF Fresh
  <2>2. Quiet(c) => k.state = "connecting" /\ ~k.err
    BY <1>1 DEF Quiet
  <2> QED
    BY <1>2, <2>1, <2>2, QuietIsPatient
<1>5. client'[c].calls = client[c].calls
  <2>1. PICK m : m = IF givesUp \/ k.err
                     THEN [k EXCEPT !.waits = FALSE, !.state = "unconnected", !.sock = "unconnected"]
                     ELSE [k EXCEPT !.waits = FALSE]
    OBVIOUS
  <2>2. m.calls = k.calls
    BY <2>1 DEF Client
  <2>3. client'[c] = m
    BY <1>0, <1>2, <2>1
  <2> QED
    BY <1>1, <2>2, <2>3
<1> QED
  BY <1>3, <1>4, <1>5, BeyondOfClient DEF Beyond

LEMMA ResetIs == \A type : Reset(type) \in Seq(Packet) /\ Range(Reset(type)) \subseteq {"RST"}
<1>1. <<"RST">> \in Seq(Packet) /\ <<>> \in Seq(Packet)
  BY EmptySeq DEF Packet
<1>2. Range(<<"RST">>) = {"RST"} /\ Range(<<>>) = {}
  BY RangeOne
<1> QED
  BY <1>1, <1>2 DEF Reset

LEMMA CloseClientStage ==
  ASSUME ServerInv, Patient, NEW c \in Clients, Stage(c), CloseClient(c)
  PROVE  Stage(c)'
<1>0. /\ client \in [Clients -> Client] /\ toServer \in [Clients -> Seq(Packet)]
  BY Typed DEF ServerInv
<1>1. PICK k \in Client : k = client[c]
  BY <1>0
<1>2. PICK z, works : z = [k EXCEPT !.open = FALSE] /\ works = clientWork[c]
  OBVIOUS
<1>3. PICK m, x : m = ClientPut(z, works) /\ x = ClientFarewell(z, works)
  OBVIOUS
<1>4. /\ m.calls = k.calls /\ m.sock = k.sock /\ m.state = k.state /\ (m.waits <=> k.waits)
      /\ (m.err <=> k.err) /\ (~k.qp => ~m.qp)
  <2>1. /\ z \in Client /\ z.calls = k.calls /\ z.sock = k.sock /\ z.state = k.state
        /\ (z.waits <=> k.waits) /\ (z.err <=> k.err) /\ (z.qp <=> k.qp)
    BY <1>2 DEF Client
  <2>2. m = z \/ m = [z EXCEPT !.qp = FALSE]
    BY <1>3 DEF ClientPut
  <2> QED
    BY <2>1, <2>2 DEF Client
<1>5. x \in Seq(Packet) /\ Range(x) \subseteq {"DETACH"} /\ (~k.qp => x = <<>>)
  <2>1. z.qp <=> k.qp
    BY <1>2 DEF Client
  <2>2. ~k.qp => x = <<>>
    BY <1>3, <2>1 DEF ClientFarewell
  <2> QED
    BY <1>3, <2>2, NewsIsPackets
<1>6. /\ client'[c] = m /\ toServer'[c] = toServer[c] \o x
      /\ k.sock = "connecting" => MayGiveUp(c)
      /\ UNCHANGED <<child, listener, toClient, serverWork, clientWork>>
  BY <1>0, <1>1, <1>2, <1>3 DEF CloseClient
<1>7. CASE Fresh(c)
  <2>1. toServer'[c] = <<>>
    BY <1>1, <1>5, <1>6, <1>7, Single DEF Fresh
  <2>2. ~Attached(c)' /\ NonePending(c)' /\ Connects(c)'
    BY <1>6, <1>7, ServersAreStill DEF Fresh, Stage
  <2>3. Fresh(c)'
    BY <1>1, <1>4, <1>6, <1>7, <2>1, <2>2 DEF Fresh
  <2> QED
    BY <2>2, <2>3 DEF Stage
<1>8. CASE Beyond(c)
  <2>1. toServer[c] \in Seq(Packet)
    BY <1>0
  <2>2. Range(toServer'[c]) = Range(toServer[c]) \cup Range(x)
    BY <1>5, <1>6, <2>1, RangeConcatenation
  <2>3. "REQUEST" \notin Range(toServer'[c])
    BY <1>5, <1>8, <2>2 DEF Beyond
  <2> QED
    BY <1>1, <1>4, <1>6, <1>8, <2>3, BeyondOfClient
<1>9. Fresh(c) \/ Beyond(c)
  BY <1>1, <1>6, QuietIsPatient DEF Quiet
<1> QED
  BY <1>7, <1>8, <1>9

LEMMA ArriveAtClientStage ==
  ASSUME ServerInv, Patient, NEW c \in Clients, Stage(c), ArriveAtClient(c)
  PROVE  Stage(c)'
<1>0. /\ client \in [Clients -> Client] /\ toServer \in [Clients -> Seq(Packet)]
      /\ toClient \in [Clients -> Seq(Packet)] /\ clientWork \in [Clients -> Seq(Packet)]
  BY Typed DEF ServerInv
<1>1. PICK k \in Client : k = client[c]
  BY <1>0
<1>2. PICK type : type = Head(toClient[c])
  OBVIOUS
<1>3. /\ toClient[c] # <<>> /\ toClient'[c] = Tail(toClient[c])
      /\ UNCHANGED <<child, listener, serverWork>>
  BY <1>0 DEF ArriveAtClient
<1>4. CASE Beyond(c)
  <2>1. CASE type = "DETACH"
    <3>1. PICK data \in MayHaveData(client[c]) : client' = [client EXCEPT ![c] = Detached(@, data)]
      BY <1>2, <2>1 DEF ArriveAtClient
    <3>2. UNCHANGED toServer
      BY <1>2, <2>1 DEF ArriveAtClient
    <3>3. PICK m : m = Detached(k, data)
      OBVIOUS
    <3>4. client'[c] = m
      BY <1>0, <1>1, <3>1, <3>3
    <3>5. m.calls = k.calls
      <4>1. m = k \/ m = [k EXCEPT !.peerShutdown = TRUE, !.state = IF data THEN @ ELSE "unconnected"]
        BY <3>3 DEF Detached
      <4> QED
        BY <4>1 DEF Client
    <3> QED
      BY <1>1, <1>3, <1>4, <3>2, <3>4, <3>5, BeyondOfClient DEF Beyond
  <2>2. CASE type # "DETACH"
    <3>1. UNCHANGED client /\ (toServer' = toServer \/ toServer' = Told(toServer, c, Reset(type)))
      BY <1>2, <2>2 DEF ArriveAtClient, Told
    <3>2. PICK x \in Seq(Packet) : x = Reset(type) /\ Range(x) \subseteq {"RST"}
      BY ResetIs
    <3>3. "REQUEST" \notin Range(toServer'[c])
      <4>1. CASE toServer' = toServer
        BY <1>4, <4>1 DEF Beyond
      <4>2. CASE toServer' = Told(toServer, c, Reset(type))
        <5>1. News(toServer, toServer', c, Range(x))
          BY <1>0, <3>2, <4>2, SendIs
        <5> QED
          BY <1>4, <3>2, <5>1 DEF News, Beyond
      <4> QED
        BY <3>1, <4>1, <4>2
    <3> QED
      BY <1>3, <1>4, <3>1, <3>3, BeyondOfClient
  <2> QED
    BY <2>1, <2>2
<1>5. CASE ~Beyond(c)
  <2>1. Negotiated(c) /\ toClient[c] = <<"NEGOTIATE">> /\ clientWork[c] = <<>>
    BY <1>3, <1>5 DEF Stage, Fresh, Asked, Negotiated, Offered
  <2>2. type = "NEGOTIATE" /\ toClient'[c] = <<>>
    BY <1>2, <1>3, <2>1, Single
  <2>3. k.open
    BY <1>1, <2>1 DEF Negotiated, Quiet
  <2>4. UNCHANGED <<client, toServer>> /\ clientWork'[c] = Append(clientWork[c], type)
    BY <1>0, <1>1, <1>2, <2>2, <2>3 DEF ArriveAtClient
  <2>5. clientWork'[c] = <<"NEGOTIATE">>
    BY <2>1, <2>2, <2>4, Single
  <2>6. ~Attached(c)' /\ Connects(c)'
    BY <1>3, <2>1, ServersAreStill DEF Negotiated, Quiet, Stage
  <2>7. Negotiated(c)'
    BY <1>3, <2>1, <2>2, <2>4, <2>5, <2>6 DEF Negotiated, Quiet
  <2> QED
    BY <2>6, <2>7 DEF Stage
<1> QED
  BY <1>4, <1>5

\* What a client answers, a work calls nothing and asks for nothing.
LEMMA ClientAnswersLittle ==
  ASSUME NEW k \in Client, NEW type \in Packet, NEW refuse \in BOOLEAN, NEW data \in BOOLEAN,
         NEW m, m = ClientAnswers(k, type, refuse, data)[1],
         NEW x, x = ClientAnswers(k, type, refuse, data)[2]
  PROVE  /\ m.calls = k.calls
         /\ x \in Seq(Packet) /\ "REQUEST" \notin Range(x)
<1>1. /\ Reset(type) \in Seq(Packet) /\ <<>> \in Seq(Packet) /\ <<"OFFER">> \in Seq(Packet)
      /\ Range(Reset(type)) \subseteq {"RST"} /\ Range(<<>>) = {} /\ Range(<<"OFFER">>) = {"OFFER"}
  BY NewsIsPackets, EmptySeq, RangeOne DEF Packet
<1>2. CASE k.state = "connecting" /\ type = "ATTACH" /\ k.qp
  <2>1. m = [k EXCEPT !.state = "connected", !.sock = "connected"] /\ x = <<>>
    BY <1>2 DEF ClientAnswers
  <2> QED
    BY <1>1, <2>1 DEF Client
<1>3. CASE k.state = "connecting" /\ type = "NEGOTIATE" /\ ~k.qp /\ ~refuse
  <2>1. m = [k EXCEPT !.qp = TRUE] /\ x = <<"OFFER">>
    BY <1>3 DEF ClientAnswers
  <2> QED
    BY <1>1, <2>1 DEF Client
<1>4. CASE k.state = "connecting" /\ (type \notin {"ATTACH", "NEGOTIATE"} \/ (type = "ATTACH" /\ ~k.qp)
                                       \/ (type = "NEGOTIATE" /\ (k.qp \/ refuse)))
  <2>1. m = [k EXCEPT !.state = "unconnected", !.err = TRUE] /\ x = Reset(type)
    BY <1>4 DEF ClientAnswers
  <2> QED
    BY <1>1, <2>1 DEF Client
<1>5. CASE k.state = "connected"
  <2>1. m = (IF type = "RST" THEN ResetConnected(k, data) ELSE k) /\ x = <<>>
    BY <1>5 DEF ClientAnswers
  <2>2. m = k \/ m = [k EXCEPT !.peerShutdown = TRUE, !.state = IF data THEN @ ELSE "disconnecting"]
    BY <2>1 DEF ResetConnected
  <2> QED
    BY <1>1, <2>1, <2>2 DEF Client
<1>6. CASE k.state \notin {"connecting", "connected"}
  <2>1. m = k /\ x = Reset(type)
    BY <1>6 DEF ClientAnswers
  <2> QED
    BY <1>1, <2>1
<1> QED
  BY <1>2, <1>3, <1>4, <1>5, <1>6

LEMMA ClientWorksStage ==
  ASSUME ServerInv, Patient, NEW c \in Clients, Stage(c), ClientWorks(c)
  PROVE  Stage(c)'
<1>0. /\ client \in [Clients -> Client] /\ toServer \in [Clients -> Seq(Packet)]
      /\ clientWork \in [Clients -> Seq(Packet)] /\ clientWork[c] \in Seq(Packet)
      /\ toServer[c] \in Seq(Packet)
  BY Typed DEF ServerInv
<1>1. PICK k \in Client : k = client[c]
  BY <1>0
<1>2. PICK i \in DOMAIN clientWork[c], refuse \in {FALSE, "refuse" \in May}, data \in MayHaveData(client[c]) :
        /\ clientWork' = [clientWork EXCEPT ![c] = RemoveAt(clientWork[c], i)]
        /\ client' = [client EXCEPT ![c] =
             ClientPut(ClientAnswers(client[c], clientWork[c][i], refuse, data)[1], RemoveAt(clientWork[c], i))]
        /\ toServer' = [toServer EXCEPT ![c] =
             @ \o ClientAnswers(client[c], clientWork[c][i], refuse, data)[2]
               \o ClientFarewell(ClientAnswers(client[c], clientWork[c][i], refuse, data)[1],
                                 RemoveAt(clientWork[c], i))]
        /\ UNCHANGED <<child, listener, toClient, serverWork>>
  BY DEF ClientWorks
<1>3. PICK type, rest : type = clientWork[c][i] /\ rest = RemoveAt(clientWork[c], i)
  OBVIOUS
<1>4. PICK z, x : z = ClientAnswers(k, type, refuse, data)[1] /\ x = ClientAnswers(k, type, refuse, data)[2]
  OBVIOUS
<1>5. PICK m, bye : m = ClientPut(z, rest) /\ bye = ClientFarewell(z, rest)
  OBVIOUS
<1>6. client'[c] = m /\ clientWork'[c] = rest /\ toServer'[c] = toServer[c] \o x \o bye
  BY <1>0, <1>1, <1>2, <1>3, <1>4, <1>5
<1>7. ~refuse /\ data \in BOOLEAN
  <2>1. ~refuse
    BY <1>2 DEF Patient
  <2>2. CASE client[c].state = "connected"
    BY <2>1, <2>2 DEF MayHaveData
  <2>3. CASE client[c].state # "connected"
    BY <2>1, <2>3 DEF MayHaveData
  <2> QED
    BY <2>2, <2>3
<1>8. CASE Beyond(c)
  <2>1. type \in Packet /\ refuse \in BOOLEAN
    <3>1. type \in Packet
      BY <1>0, <1>3, LenProperties, ElementOfSeq
    <3>2. ("refuse" \in May) \in BOOLEAN
      OBVIOUS
    <3>3. PICK r \in BOOLEAN : r = ("refuse" \in May)
      BY <3>2
    <3>4. refuse \in {FALSE, r}
      BY <1>2, <3>3
    <3> QED
      BY <3>1, <3>3, <3>4
  <2>2. z.calls = k.calls /\ x \in Seq(Packet) /\ "REQUEST" \notin Range(x) /\ z \in Client
    <3>1. z \in Client
      BY <1>4, <1>7, <2>1, ClientAnswersIs
    <3>2. z.calls = k.calls /\ x \in Seq(Packet) /\ "REQUEST" \notin Range(x)
      BY <1>4, <1>7, <2>1, ClientAnswersLittle
    <3> QED
      BY <3>1, <3>2
  <2>3. bye \in Seq(Packet) /\ Range(bye) \subseteq {"DETACH"}
    BY <1>5, NewsIsPackets
  <2>4. m.calls = k.calls
    <3>1. m = z \/ m = [z EXCEPT !.qp = FALSE]
      BY <1>5 DEF ClientPut
    <3> QED
      BY <2>2, <3>1 DEF Client
  <2>5. Range(toServer'[c]) = Range(toServer[c]) \cup Range(x) \cup Range(bye)
    <3>1. PICK w \in Seq(Packet) : w = toServer[c]
      BY <1>0
    <3>2. w \o x \in Seq(Packet) /\ Range(w \o x) = Range(w) \cup Range(x)
      BY <2>2, ConcatProperties, RangeConcatenation
    <3>3. PICK y \in Seq(Packet) : y = w \o x
      BY <3>2
    <3>4. Range(y \o bye) = Range(y) \cup Range(bye)
      BY <2>3, RangeConcatenation
    <3> QED
      BY <1>6, <3>1, <3>2, <3>3, <3>4
  <2>6. "REQUEST" \notin Range(toServer'[c])
    BY <1>8, <2>2, <2>3, <2>5 DEF Beyond
  <2> QED
    BY <1>1, <1>2, <1>6, <1>8, <2>4, <2>6, BeyondOfClient
<1>9. CASE ~Beyond(c)
  <2>1. Negotiated(c) /\ toClient[c] = <<>> /\ clientWork[c] = <<"NEGOTIATE">>
    BY <1>2, <1>9, Single DEF Stage, Fresh, Asked, Negotiated, Offered
  <2>2. type = "NEGOTIATE" /\ rest = <<>>
    BY <1>2, <1>3, <2>1, Single
  <2>3. k.open /\ k.state = "connecting" /\ ~k.qp /\ ~k.err /\ k.sock = "connecting" /\ k.calls = 1
    BY <1>1, <2>1 DEF Negotiated, Quiet
  <2>4. z = [k EXCEPT !.qp = TRUE] /\ x = <<"OFFER">>
    BY <1>4, <1>7, <2>2, <2>3 DEF ClientAnswers
  <2>5. z.open /\ z.state = "connecting" /\ z.qp /\ ~z.err /\ z.sock = "connecting" /\ z.calls = 1
    BY <2>3, <2>4 DEF Client
  <2>6. m = z /\ bye = <<>>
    BY <1>5, <2>5 DEF ClientPut, ClientFarewell
  <2>7. toServer'[c] = <<"OFFER">>
    <3>1. toServer[c] = <<>>
      BY <2>1 DEF Negotiated
    <3>2. (<<>> \o <<"OFFER">>) \o <<>> = <<"OFFER">>
      OBVIOUS
    <3> QED
      BY <1>6, <2>4, <2>6, <3>1, <3>2
  <2>8. ~Attached(c)' /\ Connects(c)'
    BY <1>2, <2>1, ServersAreStill DEF Negotiated, Quiet, Stage
  <2>9. Offered(c)'
    BY <1>2, <1>6, <2>1, <2>2, <2>5, <2>6, <2>7, <2>8 DEF Offered, Quiet, Negotiated
  <2> QED
    BY <2>8, <2>9 DEF Stage
<1> QED
  BY <1>8, <1>9

-----------------------------------------------------------------------------
(* What the listener's side does for a client *)

\* It may touch the works, but no pending child.
LEMMA BeyondOfServer ==
  ASSUME NEW c \in Clients, Stage(c), Beyond(c), UNCHANGED <<client, listener>>, KeptFor(c),
         "REQUEST" \notin Range(toServer'[c]),
         \A x \in Range(serverWork'[c]) :
           x.type # "REQUEST" /\ (x \in Range(serverWork[c]) \/ x.on # Listener \/ listener.open)
  PROVE  Stage(c)'
<1>1. Connects(c)' /\ (NonePending(c) => NonePending(c)')
  BY KeptConnects DEF Stage
<1>2. Beyond(c)'
  BY <1>1, BeyondStays
<1> QED
  BY <1>1, <1>2 DEF Stage

LEMMA ArriveAtServerStage ==
  ASSUME ServerInv, NEW c \in Clients, Stage(c), ArriveAtServer(c), NoNewEnd(c)
  PROVE  Stage(c)'
<1>0. /\ toServer \in [Clients -> Seq(Packet)] /\ toClient \in [Clients -> Seq(Packet)]
      /\ serverWork \in [Clients -> Seq(Work)]
  BY Typed DEF ServerInv
<1>1. PICK type, found : /\ type = Head(toServer[c])
                         /\ found = {s \in Children : child[s].remote = c /\ child[s].table}
  OBVIOUS
<1>2. /\ toServer[c] # <<>> /\ toServer'[c] = Tail(toServer[c])
      /\ UNCHANGED <<client, listener, clientWork>>
  BY <1>0 DEF ArriveAtServer
<1>3. UNCHANGED listener /\ KeptFor(c)
  BY ArriveKeepsPending DEF KeptFor, Pending
<1>4. CASE Beyond(c)
  <2>1. type # "REQUEST" /\ "REQUEST" \notin Range(toServer'[c])
    <3>1. PICK q \in Seq(Packet) : q = toServer[c] /\ q # <<>>
      BY <1>0, <1>2
    <3>2. Range(q) = Range(Tail(q)) \cup {Head(q)}
      BY <3>1, TailRange
    <3> QED
      BY <1>1, <1>2, <1>4, <3>1, <3>2 DEF Beyond
  <2>2. ASSUME NEW on \in Children \cup {Listener}, on # Listener \/ listener.open,
               serverWork' = MoreWork(serverWork, c, [on |-> on, type |-> type])
        PROVE  Stage(c)'
    <3>1. PICK w : w = [on |-> on, type |-> type]
      OBVIOUS
    <3>2. w.on = on /\ w.type = type
      BY <3>1
    <3>3. serverWork'[c] = Append(serverWork[c], w)
      BY <1>0, <2>2, <3>1 DEF MoreWork
    <3>4. type \in Packet
      BY <1>0, <1>1, <1>2, TailRange
    <3>5. w \in Work /\ serverWork[c] \in Seq(Work)
      BY <1>0, <3>1, <3>4 DEF Work
    <3>6. Range(serverWork'[c]) = Range(serverWork[c]) \cup {w}
      BY <3>3, <3>5, AppendRange
    <3>7. \A x \in Range(serverWork'[c]) :
            x.type # "REQUEST" /\ (x \in Range(serverWork[c]) \/ x.on # Listener \/ listener.open)
      BY <1>4, <2>1, <2>2, <3>2, <3>6 DEF Beyond
    <3> QED
      BY <1>2, <1>3, <1>4, <2>1, <3>7, BeyondOfServer
  <2>3. CASE serverWork' = serverWork
    BY <1>2, <1>3, <1>4, <2>1, <2>3, BeyondOfServer DEF Beyond
  <2>4. \/ serverWork' = serverWork
        \/ \E s \in found : serverWork' = MoreWork(serverWork, c, [on |-> s, type |-> type])
        \/ listener.open /\ serverWork' = MoreWork(serverWork, c, [on |-> Listener, type |-> type])
    BY <1>1 DEF ArriveAtServer, MoreWork
  <2>5. \A s \in found : s \in Children /\ s # Listener
    BY <1>1, HandshakeAssumption
  <2> QED
    BY <2>2, <2>3, <2>4, <2>5
<1>5. CASE ~Beyond(c)
  <2>1. \/ Asked(c) /\ toServer[c] = <<"REQUEST">> /\ serverWork[c] = <<>>
        \/ Offered(c) /\ toServer[c] = <<"OFFER">> /\ serverWork[c] = <<>>
    BY <1>2, <1>5 DEF Stage, Fresh, Asked, Negotiated, Offered
  <2>2. /\ type \in {"REQUEST", "OFFER"} /\ toServer'[c] = <<>> /\ toServer[c] = <<type>>
        /\ toClient[c] = <<>> /\ clientWork[c] = <<>> /\ serverWork[c] = <<>> /\ Quiet(c)
    <3>1. PICK t \in {"REQUEST", "OFFER"} : toServer[c] = <<t>>
      BY <2>1
    <3>2. type = t /\ toServer'[c] = <<>>
      BY <1>1, <1>2, <3>1, Single
    <3>3. toClient[c] = <<>> /\ clientWork[c] = <<>> /\ serverWork[c] = <<>> /\ Quiet(c)
      BY <2>1 DEF Asked, Offered
    <3> QED
      BY <3>1, <3>2, <3>3
  <2>3. found = {}
    <3>1. ASSUME NEW s \in Children, child[s].table PROVE child[s].qp
      BY <3>1 DEF ServerInv, Family, ChildOK
    <3> QED
      BY <1>1, <2>2, <3>1 DEF Quiet, Attached
  <2>4. Connects(c)' /\ (NonePending(c) => NonePending(c)')
    BY <1>3, KeptConnects DEF Stage
  <2>5. CASE listener.open
    <3>1. serverWork'[c] = Append(serverWork[c], ListenWork(type)) /\ UNCHANGED <<child, toClient>>
      BY <1>0, <1>1, <2>2, <2>3, <2>5 DEF ArriveAtServer, ListenWork
    <3>2. serverWork'[c] = <<ListenWork(type)>>
      BY <2>2, <3>1, Single
    <3>3. Attached(c)' <=> Attached(c)
      BY <3>1 DEF Attached
    <3>4. Quiet(c)'
      BY <1>2, <2>2, <3>3 DEF Quiet
    <3>5. CASE Asked(c) /\ toServer[c] = <<"REQUEST">>
      <4>1. type = "REQUEST"
        BY <2>2, <3>5, Single
      <4>2. Asked(c)'
        BY <1>2, <2>2, <2>4, <3>1, <3>2, <3>4, <3>5, <4>1 DEF Asked
      <4> QED
        BY <2>4, <4>2 DEF Stage
    <3>6. CASE Offered(c) /\ toServer[c] = <<"OFFER">>
      <4>1. type = "OFFER"
        BY <2>2, <3>6, Single
      <4>2. Offered(c)'
        BY <1>2, <2>2, <2>4, <3>1, <3>2, <3>4, <3>6, <4>1 DEF Offered
      <4> QED
        BY <2>4, <4>2 DEF Stage
    <3> QED
      BY <2>1, <3>5, <3>6
  <2>6. CASE ~listener.open
    <3>1. serverWork'[c] = <<>> /\ ~listener'.open
      BY <1>1, <1>2, <2>2, <2>3, <2>6 DEF ArriveAtServer
    <3>2. Range(<<>>) = {}
      BY RangeOne
    <3>3. Beyond(c)'
      BY <1>2, <2>2, <3>1, <3>2 DEF Beyond, Quiet
    <3> QED
      BY <2>4, <3>3 DEF Stage
  <2> QED
    BY <2>5, <2>6
<1> QED
  BY <1>4, <1>5

LEMMA ChildWorksStage ==
  ASSUME ServerInv, NEW c \in Clients, Stage(c), ChildWorks(c)
  PROVE  Stage(c)'
<1>0. serverWork \in [Clients -> Seq(Work)] /\ serverWork[c] \in Seq(Work)
  BY Typed DEF ServerInv
<1>1. PICK i \in DOMAIN serverWork[c] :
        /\ serverWork[c][i].on # Listener
        /\ serverWork' = [serverWork EXCEPT ![c] = RemoveAt(@, i)]
        /\ UNCHANGED <<client, listener, toServer, clientWork>>
  BY DEF ChildWorks
<1>2. KeptFor(c)
  BY ChildWorksKeepsPending DEF KeptFor, Pending
<1>3. CASE Beyond(c)
  <2>1. serverWork'[c] = RemoveAt(serverWork[c], i)
    BY <1>0, <1>1
  <2>2. Range(serverWork'[c]) \subseteq Range(serverWork[c])
    BY <1>0, <2>1, RemoveAtRange
  <2> QED
    BY <1>1, <1>2, <1>3, <2>2, BeyondOfServer DEF Beyond
<1>4. CASE ~Beyond(c)
  <2>1. PICK type : serverWork[c] = <<>> \/ serverWork[c] = <<ListenWork(type)>>
    BY <1>4 DEF Stage, Fresh, Asked, Negotiated, Offered
  <2>2. serverWork[c][i] = ListenWork(type)
    BY <1>1, <2>1, Single
  <2>3. ListenWork(type).on = Listener
    BY DEF ListenWork
  <2> QED
    BY <1>1, <2>2, <2>3
<1> QED
  BY <1>3, <1>4

LEMMA ListenerWorksStage ==
  ASSUME ServerInv, NEW c \in Clients, Stage(c), ListenerWorks(c), NoNewEnd(c)
  PROVE  Stage(c)'
<1>0. /\ child \in [Children -> Child] /\ toClient \in [Clients -> Seq(Packet)]
      /\ serverWork \in [Clients -> Seq(Work)] /\ Pending \subseteq Children
      /\ listener.pending \in Seq(Children)
  BY Typed DEF ServerInv
<1>1. PICK i \in DOMAIN serverWork[c] :
        /\ serverWork[c][i].on = Listener
        /\ serverWork' = [serverWork EXCEPT ![c] = RemoveAt(@, i)]
        /\ \/ \E s \in {s \in Range(listener.pending) : child[s].remote = c} :
                ListenForPending(c, s, serverWork[c][i].type)
           \/ /\ {s \in Range(listener.pending) : child[s].remote = c} = {}
              /\ ListenToRequest(c, serverWork[c][i].type)
        /\ UNCHANGED <<client, toServer, clientWork>>
  BY DEF ListenerWorks
<1>2. PICK type \in Packet : type = serverWork[c][i].type
  BY WorkIs DEF ServerInv
<1>3. serverWork'[c] = RemoveAt(serverWork[c], i)
  BY <1>0, <1>1
<1>4. NonePending(c) => ListenToRequest(c, type)
  BY <1>1, <1>2 DEF NonePending, Pending
<1>5. CASE NonePending(c) /\ UNCHANGED <<child, listener>>
  <2>1. KeptFor(c)
    BY <1>5, KeptByClient
  <2>2. Connects(c)' /\ NonePending(c)'
    BY <1>5, <2>1, KeptConnects DEF Stage
  <2>3. CASE Beyond(c)
    <3>1. Range(serverWork'[c]) \subseteq Range(serverWork[c])
      <4>1. serverWork[c] \in Seq(Work)
        BY <1>0
      <4> QED
        BY <1>3, <4>1, RemoveAtRange
    <3> QED
      BY <1>1, <1>5, <2>1, <2>3, <3>1, BeyondOfServer DEF Beyond
  <2>4. CASE ~Beyond(c)
    <3>1. PICK t : serverWork[c] = <<>> \/ serverWork[c] = <<ListenWork(t)>>
      BY <2>4 DEF Stage, Fresh, Asked, Negotiated, Offered
    <3>2. serverWork[c] # <<>>
      BY <1>1, Single
    <3>3. serverWork'[c] = <<>>
      BY <1>1, <1>3, <3>1, <3>2, Single
    <3>4. client[c].calls = 1 /\ toServer[c] = <<>>
      BY <2>4, <3>2 DEF Stage, Fresh, Asked, Negotiated, Offered, Quiet
    <3>5. Range(<<>>) = {}
      BY RangeOne
    <3>6. Beyond(c)'
      BY <1>1, <2>2, <3>3, <3>4, <3>5 DEF Beyond
    <3> QED
      BY <2>2, <3>6 DEF Stage
  <2> QED
    BY <2>3, <2>4
<1>6. CASE Beyond(c)
  <2>1. serverWork[c][i] \in Range(serverWork[c])
    BY WorkIs DEF ServerInv
  <2>2. NonePending(c) /\ type # "REQUEST"
    BY <1>1, <1>2, <1>6, <2>1 DEF Beyond
  <2>3. UNCHANGED <<child, listener>>
    BY <1>4, <2>2 DEF ListenToRequest
  <2> QED
    BY <1>5, <2>2, <2>3
<1>7. CASE Asked(c) /\ ~Beyond(c)
  <2>1. /\ Quiet(c) /\ ~client[c].qp /\ toClient[c] = <<>> /\ clientWork[c] = <<>> /\ NonePending(c)
        /\ toServer[c] = <<>> /\ serverWork[c] = <<ListenWork("REQUEST")>>
    BY <1>1, <1>7, Single DEF Asked
  <2>2. serverWork'[c] = <<>>
    BY <1>1, <1>3, <2>1, Single
  <2>3. ASSUME NEW s \in Children, child' = WithChild(s, NewChild(c)), listener' = Listing(s),
               toClient'[c] = Append(toClient[c], "NEGOTIATE")
        PROVE  Stage(c)'
    <3>1. toClient'[c] = <<"NEGOTIATE">>
      BY <2>1, <2>3, Single
    <3>2. "ATTACH" \notin Range(<<"NEGOTIATE">>)
      BY RangeOne
    <3>3. ~Attached(c)'
      BY <2>1, <3>1, <3>2 DEF NoNewEnd, Quiet
    <3>4. Negotiated(c)'
      BY <1>1, <2>1, <2>2, <3>1, <3>3 DEF Negotiated, Quiet
    <3>5. PICK q : q = Append(listener.pending, s)
      OBVIOUS
    <3>6. Range(q) = Pending \cup {s}
      BY <1>0, <3>5, AppendRange DEF Pending
    <3>7. PICK l \in [open : BOOLEAN, failed : BOOLEAN, pending : Seq(Children),
                      acceptQueue : Seq(Children), backlog : Int] : l = listener
      BY DEF ServerInv, HandshakeTypeOK
    <3>8. listener' = [l EXCEPT !.pending = q, !.backlog = @ + 1]
      BY <2>3, <3>5, <3>7 DEF Listing
    <3>9. Pending' = Pending \cup {s}
      BY <3>6, <3>7, <3>8 DEF Pending
    <3>10. NewChild(c).state = "connecting"
      BY DEF NewChild, Free
    <3>11. child'[s] = NewChild(c) /\ \A t \in Children : t # s => child'[t] = child[t]
      BY <1>0, <2>3 DEF WithChild
    <3>12. Connects(c)'
      BY <1>0, <2>1, <3>9, <3>10, <3>11 DEF Connects, NonePending
    <3> QED
      BY <3>4, <3>12 DEF Stage
  <2>4. \/ UNCHANGED <<child, listener>>
        \/ \E s \in Children : /\ child' = WithChild(s, NewChild(c)) /\ listener' = Listing(s)
                              /\ toClient' = [toClient EXCEPT ![c] = Append(@, "NEGOTIATE")]
    BY <1>4, <2>1 DEF ListenToRequest, WithChild, Listing
  <2> QED
    BY <1>0, <1>5, <2>1, <2>3, <2>4
<1>8. CASE Offered(c) /\ ~Beyond(c)
  <2>1. /\ Quiet(c) /\ client[c].qp /\ toServer[c] = <<>> /\ serverWork[c] = <<ListenWork("OFFER")>>
    BY <1>1, <1>8, Single DEF Offered
  <2>2. serverWork'[c] = <<>> /\ type = "OFFER"
    <3>1. serverWork[c][i] = ListenWork("OFFER")
      BY <1>1, <2>1, Single
    <3>2. ListenWork("OFFER").type = "OFFER"
      BY DEF ListenWork
    <3> QED
      BY <1>1, <1>2, <1>3, <2>1, <3>1, <3>2, Single
  <2>3. CASE NonePending(c)
    <3>1. UNCHANGED <<child, listener>>
      BY <1>4, <2>2, <2>3 DEF ListenToRequest
    <3> QED
      BY <1>5, <2>3, <3>1
  <2>4. CASE ~NonePending(c)
    <3>1. PICK s \in Pending : ListenForPending(c, s, type) /\ child[s].remote = c
      BY <1>1, <1>2, <2>4 DEF NonePending, Pending
    <3>2. child[s].state = "connecting" /\ MayAttach(c)
      BY <2>1, <3>1 DEF Stage, Connects, MayAttach, Quiet, Attached
    <3>3. child' = WithChild(s, AttachedChild(child[s])) /\ listener' = Attaching(s)
      BY <2>2, <3>1, <3>2 DEF ListenForPending, WithChild, AttachedChild, Attaching
    <3>4. PICK q, a : q = RemoveFirst(listener.pending, s) /\ a = Append(listener.acceptQueue, s)
      OBVIOUS
    <3>5. Range(q) = Pending \ {s}
      BY <1>0, <3>1, <3>4, RemoveFirstIs DEF ServerInv, Lists, Pending
    <3>6. PICK l \in [open : BOOLEAN, failed : BOOLEAN, pending : Seq(Children),
                      acceptQueue : Seq(Children), backlog : Int] : l = listener
      BY DEF ServerInv, HandshakeTypeOK
    <3>7. listener' = [l EXCEPT !.pending = q, !.acceptQueue = a]
      BY <3>3, <3>4, <3>6 DEF Attaching
    <3>8. Pending' = Pending \ {s}
      BY <3>5, <3>6, <3>7 DEF Pending
    <3>9. \A t \in Children : t # s => child'[t] = child[t]
      BY <1>0, <3>3 DEF WithChild
    <3>10. \A t \in Pending : child[t].remote = c => t = s
      BY <3>1 DEF ServerInv, Lists
    <3>11. NonePending(c)' /\ Connects(c)'
      BY <1>0, <3>8, <3>9, <3>10 DEF NonePending, Connects
    <3>12. Range(<<>>) = {}
      BY RangeOne
    <3>13. Beyond(c)'
      BY <1>1, <2>1, <2>2, <3>11, <3>12 DEF Beyond, Quiet
    <3> QED
      BY <3>11, <3>13 DEF Stage
  <2> QED
    BY <2>3, <2>4
<1>9. Beyond(c) \/ Asked(c) \/ Offered(c)
  <2>1. serverWork[c] # <<>>
    BY <1>1, Single
  <2> QED
    BY <2>1 DEF Stage, Fresh, Negotiated
<1> QED
  BY <1>6, <1>7, <1>8, <1>9

-----------------------------------------------------------------------------
(* All the stages *)

LEMMA InitStages == HandshakeInit => Stages
<1> SUFFICES ASSUME HandshakeInit, NEW c \in Clients PROVE Stage(c)
  BY DEF Stages
<1>1. /\ client[c] = [open |-> TRUE, state |-> "unconnected", sock |-> "unconnected", err |-> FALSE,
                      qp |-> FALSE, peerShutdown |-> FALSE, waits |-> FALSE, calls |-> 0]
      /\ toServer[c] = <<>> /\ toClient[c] = <<>> /\ serverWork[c] = <<>> /\ clientWork[c] = <<>>
      /\ \A s \in Children : child[s] = Free
  BY DEF HandshakeInit
<1>2. ~Attached(c)
  BY <1>1, FreeIsChild DEF Attached
<1>3. Pending = {}
  <2>1. listener.pending = <<>>
    BY DEF HandshakeInit
  <2> QED
    BY <2>1, RangeOne DEF Pending
<1>4. NonePending(c) /\ Connects(c)
  BY <1>3 DEF NonePending, Connects
<1>5. Fresh(c)
  BY <1>1, <1>2, <1>4 DEF Fresh
<1> QED
  BY <1>4, <1>5 DEF Stage

LEMMA StagesAreKept ==
  ASSUME ServerInv, Patient, Stages, ServerStep \/ ClientStep, HandshakeNext
  PROVE  Stages'
<1> SUFFICES ASSUME NEW d \in Clients PROVE Stage(d)'
  BY DEF Stages
<1>1. Stage(d) /\ NoNewEnd(d)
  BY NoNewEnds DEF Stages
<1>2. CASE AsideOf(d)
  BY <1>1, <1>2, AsideStage
<1>3. ASSUME NEW c \in Clients,
             \/ Connect(c) \/ ConnectAgain(c) \/ ConnectReturns(c) \/ CloseClient(c)
             \/ ArriveAtClient(c) \/ ClientWorks(c)
      PROVE  Stage(d)'
  <2>1. CASE d # c
    BY <1>2, <1>3, <2>1, ClientIsAside
  <2>2. CASE d = c
    BY <1>1, <1>3, <2>2, ConnectStage, ConnectAgainStage, ConnectReturnsStage, CloseClientStage,
       ArriveAtClientStage, ClientWorksStage
  <2> QED
    BY <2>1, <2>2
<1>4. ASSUME NEW c \in Clients, ArriveAtServer(c) \/ ChildWorks(c)
      PROVE  Stage(d)'
  <2>1. CASE d # c
    BY <1>2, <1>4, <2>1, PacketIsAside
  <2>2. CASE d = c
    BY <1>1, <1>4, <2>2, ArriveAtServerStage, ChildWorksStage
  <2> QED
    BY <2>1, <2>2
<1>5. ASSUME NEW c \in Clients, ListenerWorks(c)
      PROVE  Stage(d)'
  <2>1. CASE d # c
    BY <1>2, <1>5, <2>1, ListenerIsAside
  <2>2. CASE d = c
    BY <1>1, <1>5, <2>2, ListenerWorksStage
  <2> QED
    BY <2>1, <2>2
<1>6. ASSUME NEW s \in Children, PendingWork(s) \/ CloseAccepted(s)
      PROVE  Stage(d)'
  BY <1>2, <1>6, PendingWorkIsAside, CloseAcceptedIsAside
<1>7. CASE Accept \/ CloseListener
  BY <1>2, <1>7, AcceptIsAside, CloseListenerIsAside
<1> QED
  BY <1>3, <1>4, <1>5, <1>6, <1>7 DEF HandshakeNext

LEMMA StagesAreStill == Stages /\ UNCHANGED handshakeVars => Stages'
<1> SUFFICES ASSUME Stages, UNCHANGED handshakeVars, NEW c \in Clients PROVE Stage(c)'
  BY DEF Stages
<1>1. UNCHANGED <<client, child, listener, toServer, toClient, serverWork, clientWork>> /\ Stage(c)
  BY DEF handshakeVars, Stages
<1>2. KeptFor(c)
  BY <1>1, KeptByClient
<1>3. AsideOf(c) /\ NoNewEnd(c)
  BY <1>1, <1>2 DEF AsideOf, NoNewEnd, Attached
<1> QED
  BY <1>1, <1>3, AsideStage

LEMMA StagesSay == ServerInv /\ Stages => PendingConnect
<1> SUFFICES ASSUME ServerInv, Stages, NEW s \in Pending PROVE child[s].state = "connecting"
  BY DEF PendingConnect, Pending
<1>1. child[s].remote \in Clients
  BY PendingIs
<1> QED
  BY <1>1 DEF Stages, Stage, Connects

\* Clients that connect once, with patience, and accept the size that is offered:
\* no reset comes for a pending child, which waits for the offer until its timer
\* runs.
THEOREM PendingWaits == ASSUME Patient PROVE HandshakeSpec => []PendingConnect
<1>1. HandshakeInit => Stages
  BY InitStages
<1>2. HalfOpenInv /\ Stages /\ [HandshakeNext]_handshakeVars => Stages'
  <2> SUFFICES ASSUME HalfOpenInv, Stages, [HandshakeNext]_handshakeVars PROVE Stages'
    OBVIOUS
  <2>1. CASE HandshakeNext
    <3>1. ServerInv /\ (ServerStep \/ ClientStep)
      BY <2>1, StepOfASide DEF HalfOpenInv
    <3> QED
      BY <2>1, <3>1, StagesAreKept
  <2>2. CASE UNCHANGED handshakeVars
    BY <2>2, StagesAreStill
  <2> QED
    BY <2>1, <2>2
<1>3. HalfOpenInv /\ Stages => PendingConnect
  BY StagesSay DEF HalfOpenInv
<1> QED
  BY <1>1, <1>2, <1>3, HalfOpenInvariant, PTL DEF HandshakeSpec

\* With them the count of a child is always the number of those who have it,
\* whatever users, timers and the end of the listener do: no put is of a reference
\* that nobody had, and none is forgotten.
THEOREM PatientCounts == ASSUME Patient PROVE HandshakeSpec => []RefCountIsHolders
  BY PendingWaits, CountsAreExact, PTL

-----------------------------------------------------------------------------
(* The backlog of patient clients *)

NoneRejected == \A s \in Children : ~child[s].rejected

BacklogInv == ~listener.failed /\ NoneRejected /\ BacklogCountsWaiting

LEMMA PutRejected ==
  ASSUME NEW k \in Child, NEW n, ~k.rejected
  PROVE  ~Put(k, n).rejected
<1>1. CASE k.refs = n
  BY <1>1 DEF Put, Free
<1>2. CASE k.refs # n
  <2>1. PICK e : e = k.refs - n
    OBVIOUS
  <2>2. Put(k, n) = [k EXCEPT !.refs = e]
    BY <1>2, <2>1 DEF Put
  <2> QED
    BY <2>2 DEF Child
<1> QED
  BY <1>1, <1>2

LEMMA OneNotRejected ==
  ASSUME ServerInv, NoneRejected, NEW s \in Children, NEW m, ~m.rejected, child' = WithChild(s, m)
  PROVE  NoneRejected'
<1>1. child \in [Children -> Child]
  BY Typed DEF ServerInv
<1> QED
  BY <1>1 DEF NoneRejected, WithChild

LEMMA SameListener ==
  ASSUME BacklogInv, UNCHANGED listener, NoneRejected'
  PROVE  BacklogInv'
  BY DEF BacklogInv, BacklogCountsWaiting

LEMMA ArriveKeepsBacklog ==
  ASSUME ServerInv, BacklogInv, NEW c \in Clients, ArriveAtServer(c)
  PROVE  BacklogInv'
<1>0. child \in [Children -> Child]
  BY Typed DEF ServerInv
<1>1. UNCHANGED listener
  BY DEF ArriveAtServer
<1>2. ASSUME NEW s \in Children PROVE ~child'[s].rejected
  <2>1. PICK k \in Child : k = child[s] /\ ~k.rejected
    BY <1>0 DEF BacklogInv, NoneRejected
  <2>2. \/ \E data \in BOOLEAN :
             child' = [t \in Children |-> IF t \in {u \in Children : child[u].remote = c /\ child[u].qp}
                                          THEN Detached(child[t], data) ELSE child[t]]
        \/ \E t \in Children : child[t].table /\ child' = [child EXCEPT ![t].refs = @ + 1]
        \/ child' = child
    BY DEF ArriveAtServer
  <2>3. PICK e : e = k.refs + 1
    OBVIOUS
  <2>4. \/ \E data \in BOOLEAN : child'[s] = Detached(k, data)
        \/ child'[s] = [k EXCEPT !.refs = e]
        \/ child'[s] = k
    BY <1>0, <2>1, <2>2, <2>3
  <2>5. \A data \in BOOLEAN : ~Detached(k, data).rejected
    <3> TAKE data \in BOOLEAN
    <3>1. \/ Detached(k, data) = k
          \/ Detached(k, data) = [k EXCEPT !.peerShutdown = TRUE, !.state = IF data THEN @ ELSE "unconnected"]
      BY DEF Detached
    <3> QED
      BY <2>1, <3>1 DEF Child
  <2>6. ~[k EXCEPT !.refs = e].rejected
    BY <2>1 DEF Child
  <2> QED
    BY <2>1, <2>4, <2>5, <2>6
<1> QED
  BY <1>1, <1>2, SameListener DEF NoneRejected

LEMMA ChildWorksKeepsBacklog ==
  ASSUME ServerInv, BacklogInv, NEW c \in Clients, ChildWorks(c)
  PROVE  BacklogInv'
<1>0. child \in [Children -> Child]
  BY Typed DEF ServerInv
<1>1. UNCHANGED listener
  BY DEF ChildWorks
<1>2. PICK i \in DOMAIN serverWork[c], data \in BOOLEAN :
        /\ serverWork[c][i].on # Listener
        /\ child' = [child EXCEPT ![serverWork[c][i].on] =
              Put(IF child[serverWork[c][i].on].state = "connected" /\ serverWork[c][i].type = "RST"
                  THEN ResetConnected(child[serverWork[c][i].on], data)
                  ELSE child[serverWork[c][i].on], 1)]
  BY DEF ChildWorks
<1>3. PICK t, k, m :
        /\ t = serverWork[c][i].on
        /\ k = IF child[t].state = "connected" /\ serverWork[c][i].type = "RST"
               THEN ResetConnected(child[t], data) ELSE child[t]
        /\ m = Put(k, 1)
  OBVIOUS
<1>4. t \in Children
  BY <1>2, <1>3, WorkIs DEF ServerInv
<1>5. child' = WithChild(t, m)
  BY <1>2, <1>3 DEF WithChild
<1>6. k \in Child /\ ~k.rejected
  <2>1. PICK z \in Child : z = child[t] /\ ~z.rejected
    BY <1>0, <1>4 DEF BacklogInv, NoneRejected
  <2>2. k = z \/ k = [z EXCEPT !.peerShutdown = TRUE, !.state = IF data THEN @ ELSE "disconnecting"]
    BY <1>3, <2>1 DEF ResetConnected
  <2> QED
    BY <2>1, <2>2 DEF Child, State
<1>7. ~m.rejected
  BY <1>3, <1>6, PutRejected
<1> QED
  BY <1>1, <1>4, <1>5, <1>7, OneNotRejected, SameListener DEF BacklogInv

LEMMA PendingWorkKeepsBacklog ==
  ASSUME ServerInv, BacklogInv, NEW s \in Children, PendingWork(s)
  PROVE  BacklogInv'
<1>0. child \in [Children -> Child] /\ listener.pending \in Seq(Children)
      /\ listener.acceptQueue \in Seq(Children) /\ listener.backlog \in Int
  BY Typed DEF ServerInv
<1>1. PICK z \in Child : z = child[s] /\ ~z.rejected
  BY <1>0 DEF BacklogInv, NoneRejected
<1>2. PICK k, n : /\ k = IF s \in Pending THEN TimedOut(z) ELSE [z EXCEPT !.timer = FALSE]
                  /\ n = (IF s \in Pending THEN 1 ELSE 0) + (IF s \in Pending THEN 2 ELSE 1)
                           + (IF s \in Pending /\ z.table THEN 1 ELSE 0)
  OBVIOUS
<1>3. /\ child' = WithChild(s, Put(k, n))
      /\ listener' = IF s \in Pending
                     THEN [listener EXCEPT !.pending = RemoveFirst(@, s), !.backlog = @ - 1]
                     ELSE listener
  BY <1>1, <1>2 DEF PendingWork, WithChild, TimedOut, Pending
<1>4. k \in Child /\ ~k.rejected
  <2>1. CASE k = TimedOut(z)
    BY <1>1, <2>1 DEF Child, State, TimedOut
  <2>2. CASE k = [z EXCEPT !.timer = FALSE]
    BY <1>1, <2>2 DEF Child
  <2> QED
    BY <1>2, <2>1, <2>2
<1>5. NoneRejected'
  <2>1. PICK m : m = Put(k, n)
    OBVIOUS
  <2>2. ~m.rejected
    BY <1>4, <2>1, PutRejected
  <2> QED
    BY <1>3, <2>1, <2>2, OneNotRejected DEF BacklogInv
<1>6. CASE s \in Pending
  <2>1. PICK q, b : q = RemoveFirst(listener.pending, s) /\ b = listener.backlog - 1
    OBVIOUS
  <2>2. Len(q) = Len(listener.pending) - 1
    BY <1>0, <1>6, <2>1, RemoveFirstIs DEF ServerInv, Lists, Pending
  <2>3. PICK l \in [open : BOOLEAN, failed : BOOLEAN, pending : Seq(Children),
                    acceptQueue : Seq(Children), backlog : Int] : l = listener
    BY DEF ServerInv, HandshakeTypeOK
  <2>4. listener' = [l EXCEPT !.pending = q, !.backlog = b]
    BY <1>3, <1>6, <2>1, <2>3
  <2>5. /\ listener'.open = l.open /\ listener'.failed = l.failed /\ listener'.pending = q
        /\ listener'.acceptQueue = l.acceptQueue /\ listener'.backlog = b
    BY <2>3, <2>4
  <2>6. Len(listener.pending) \in Nat /\ Len(listener.acceptQueue) \in Nat
    BY <1>0, LenProperties
  <2>7. BacklogCountsWaiting'
    BY <1>0, <2>1, <2>2, <2>3, <2>5, <2>6, HandshakeAssumption, SMTT(30) DEF BacklogInv, BacklogCountsWaiting
  <2> QED
    BY <1>5, <2>3, <2>5, <2>7 DEF BacklogInv
<1>7. CASE s \notin Pending
  BY <1>3, <1>5, <1>7, SameListener
<1> QED
  BY <1>6, <1>7

LEMMA AcceptKeepsBacklog ==
  ASSUME ServerInv, BacklogInv, Accept
  PROVE  BacklogInv'
<1>0. child \in [Children -> Child] /\ listener.pending \in Seq(Children)
      /\ listener.acceptQueue \in Seq(Children) /\ listener.backlog \in Int
  BY Typed DEF ServerInv
<1>1. PICK s, k : s = Head(listener.acceptQueue) /\ k = [child[s] EXCEPT !.owner = "user"]
  OBVIOUS
<1>2. /\ listener.acceptQueue # <<>>
      /\ child' = WithChild(s, Put(k, 1))
      /\ listener' = [listener EXCEPT !.acceptQueue = Tail(@), !.backlog = @ - 1]
  BY <1>1 DEF Accept, WithChild, BacklogInv
<1>3. s \in Children /\ Tail(listener.acceptQueue) \in Seq(Children)
      /\ Len(Tail(listener.acceptQueue)) = Len(listener.acceptQueue) - 1
  BY <1>0, <1>1, <1>2, TailRange
<1>4. k \in Child /\ ~k.rejected
  <2>1. PICK z \in Child : z = child[s] /\ ~z.rejected
    BY <1>0, <1>3 DEF BacklogInv, NoneRejected
  <2>2. k = [z EXCEPT !.owner = "user"]
    BY <1>1, <2>1
  <2> QED
    BY <2>1, <2>2 DEF Child
<1>5. NoneRejected'
  <2>1. PICK m : m = Put(k, 1)
    OBVIOUS
  <2>2. ~m.rejected
    BY <1>4, <2>1, PutRejected
  <2> QED
    BY <1>2, <1>3, <2>1, <2>2, OneNotRejected DEF BacklogInv
<1>6. PICK q, b : q = Tail(listener.acceptQueue) /\ b = listener.backlog - 1
  OBVIOUS
<1>7. PICK l \in [open : BOOLEAN, failed : BOOLEAN, pending : Seq(Children),
                  acceptQueue : Seq(Children), backlog : Int] : l = listener
  BY DEF ServerInv, HandshakeTypeOK
<1>8. listener' = [l EXCEPT !.acceptQueue = q, !.backlog = b]
  BY <1>2, <1>6, <1>7
<1>9. /\ listener'.open = l.open /\ listener'.failed = l.failed /\ listener'.pending = l.pending
      /\ listener'.acceptQueue = q /\ listener'.backlog = b
  BY <1>7, <1>8
<1>10. Len(listener.pending) \in Nat /\ Len(listener.acceptQueue) \in Nat
  BY <1>0, LenProperties
<1>11. BacklogCountsWaiting'
  BY <1>0, <1>3, <1>6, <1>7, <1>9, <1>10, HandshakeAssumption DEF BacklogInv, BacklogCountsWaiting
<1> QED
  BY <1>5, <1>7, <1>9, <1>11 DEF BacklogInv

LEMMA CloseAcceptedKeepsBacklog ==
  ASSUME ServerInv, BacklogInv, NEW s \in Children, CloseAccepted(s)
  PROVE  BacklogInv'
<1>1. PICK z \in Child : z = child[s] /\ ~z.rejected
  BY Typed DEF ServerInv, BacklogInv, NoneRejected
<1>2. PICK k, n : k = Release(z, 0).child /\ n = Release(z, 0).drops
  OBVIOUS
<1>3. child' = WithChild(s, Put(k, n)) /\ UNCHANGED listener
  BY <1>1, <1>2 DEF CloseAccepted, WithChild
<1>4. k \in Child /\ ~k.rejected
  <2>1. k = [z EXCEPT !.table = FALSE, !.owner = "none"]
    BY <1>2 DEF Release
  <2> QED
    BY <1>1, <2>1 DEF Child
<1>5. PICK m : m = Put(k, n)
  OBVIOUS
<1>6. ~m.rejected
  BY <1>4, <1>5, PutRejected
<1> QED
  BY <1>3, <1>5, <1>6, OneNotRejected, SameListener DEF BacklogInv

LEMMA CloseListenerKeepsBacklog ==
  ASSUME ServerInv, BacklogInv, CloseListener
  PROVE  BacklogInv'
<1>0. child \in [Children -> Child]
  BY Typed DEF ServerInv
<1>1. ASSUME NEW s \in Children PROVE ~child'[s].rejected
  <2>1. PICK z \in Child : z = child[s] /\ ~z.rejected
    BY <1>0 DEF BacklogInv, NoneRejected
  <2>2. PICK k, n : k = Release(z, 1).child /\ n = Release(z, 1).drops
    OBVIOUS
  <2>3. child'[s] = Put(k, n) \/ child'[s] = z
    BY <2>1, <2>2 DEF CloseListener
  <2>4. k = [z EXCEPT !.table = FALSE, !.owner = "none"]
    BY <2>2 DEF Release
  <2>5. k \in Child /\ ~k.rejected
    BY <2>1, <2>4 DEF Child
  <2> QED
    BY <2>1, <2>3, <2>5, PutRejected
<1>2. PICK l \in [open : BOOLEAN, failed : BOOLEAN, pending : Seq(Children),
                  acceptQueue : Seq(Children), backlog : Int] : l = listener
  BY DEF ServerInv, HandshakeTypeOK
<1>3. listener' = [l EXCEPT !.open = FALSE, !.acceptQueue = <<>>]
  BY <1>2 DEF CloseListener
<1>4. ~listener'.open /\ listener'.failed = l.failed
  BY <1>2, <1>3
<1> QED
  BY <1>1, <1>2, <1>4 DEF BacklogInv, NoneRejected, BacklogCountsWaiting

\* What the listener finds for a pending child is its offer.
LEMMA OfferAttaches ==
  ASSUME ServerInv, NEW c \in Clients, Stage(c), NEW i \in DOMAIN serverWork[c],
         serverWork[c][i].on = Listener, NEW s \in Pending, child[s].remote = c
  PROVE  serverWork[c][i].type = "OFFER" /\ child[s].state = "connecting" /\ MayAttach(c)
<1>1. ~NonePending(c)
  BY DEF NonePending
<1>2. ~Beyond(c)
  <2>1. serverWork[c][i] \in Range(serverWork[c])
    BY WorkIs DEF ServerInv
  <2> QED
    BY <1>1, <2>1 DEF Beyond
<1>3. Offered(c) /\ serverWork[c] = <<ListenWork("OFFER")>>
  <2>1. serverWork[c] # <<>>
    BY Single
  <2> QED
    BY <1>1, <1>2, <2>1 DEF Stage, Fresh, Asked, Negotiated, Offered
<1>4. serverWork[c][i] = ListenWork("OFFER")
  BY <1>3, Single
<1>5. ListenWork("OFFER").type = "OFFER"
  BY DEF ListenWork
<1>6. child[s].state = "connecting" /\ MayAttach(c)
  BY <1>3 DEF Stage, Connects, Offered, MayAttach, Quiet, Attached
<1> QED
  BY <1>4, <1>5, <1>6

LEMMA ListenerWorksKeepsBacklog ==
  ASSUME ServerInv, BacklogInv, NEW c \in Clients, Stage(c), ListenerWorks(c)
  PROVE  BacklogInv'
<1>0. /\ child \in [Children -> Child] /\ Pending \subseteq Children
      /\ listener.pending \in Seq(Children) /\ listener.acceptQueue \in Seq(Children)
      /\ listener.backlog \in Int
  BY Typed DEF ServerInv
<1>1. PICK i \in DOMAIN serverWork[c] :
        /\ serverWork[c][i].on = Listener
        /\ \/ \E s \in {s \in Range(listener.pending) : child[s].remote = c} :
                ListenForPending(c, s, serverWork[c][i].type)
           \/ ListenToRequest(c, serverWork[c][i].type)
  BY DEF ListenerWorks
<1>2. PICK l \in [open : BOOLEAN, failed : BOOLEAN, pending : Seq(Children),
                  acceptQueue : Seq(Children), backlog : Int] : l = listener
  BY DEF ServerInv, HandshakeTypeOK
<1>3. Len(listener.pending) \in Nat /\ Len(listener.acceptQueue) \in Nat
  BY <1>0, LenProperties
<1>4. ASSUME NEW s \in Pending, child[s].remote = c, ListenForPending(c, s, serverWork[c][i].type)
      PROVE  BacklogInv'
  <2>1. serverWork[c][i].type = "OFFER" /\ child[s].state = "connecting" /\ MayAttach(c)
    BY <1>1, <1>4, OfferAttaches
  <2>2. child' = WithChild(s, AttachedChild(child[s])) /\ listener' = Attaching(s)
    BY <1>4, <2>1 DEF ListenForPending, WithChild, AttachedChild, Attaching
  <2>3. PICK m : m = AttachedChild(child[s])
    OBVIOUS
  <2>4. ~m.rejected
    <3>1. PICK z \in Child : z = child[s] /\ ~z.rejected
      BY <1>0 DEF BacklogInv, NoneRejected
    <3> QED
      BY <2>3, <3>1 DEF AttachedChild, Child
  <2>5. NoneRejected'
    BY <1>0, <2>2, <2>3, <2>4, OneNotRejected DEF BacklogInv
  <2>6. PICK q, a : q = RemoveFirst(listener.pending, s) /\ a = Append(listener.acceptQueue, s)
    OBVIOUS
  <2>7. Len(q) = Len(listener.pending) - 1 /\ Len(a) = Len(listener.acceptQueue) + 1
    <3>1. Len(q) = Len(listener.pending) - 1
      BY <1>0, <2>6, RemoveFirstIs DEF ServerInv, Lists, Pending
    <3>2. Len(a) = Len(listener.acceptQueue) + 1
      BY <1>0, <2>6, AppendRange
    <3> QED
      BY <3>1, <3>2
  <2>8. listener' = [l EXCEPT !.pending = q, !.acceptQueue = a]
    BY <1>2, <2>2, <2>6 DEF Attaching
  <2>9. /\ listener'.open = l.open /\ listener'.failed = l.failed /\ listener'.pending = q
        /\ listener'.acceptQueue = a /\ listener'.backlog = l.backlog
    BY <1>2, <2>8
  <2>10. BacklogCountsWaiting'
    <3>1. /\ listener'.open = listener.open /\ listener'.backlog = listener.backlog
          /\ Len(listener'.pending) = Len(listener.pending) - 1
          /\ Len(listener'.acceptQueue) = Len(listener.acceptQueue) + 1
      BY <1>2, <2>7, <2>9
    <3>2. CASE listener'.open
      <4>1. /\ listener.backlog = Len(listener.pending) + Len(listener.acceptQueue)
            /\ listener.backlog <= MaxBacklog
        BY <3>1, <3>2 DEF BacklogInv, BacklogCountsWaiting
      <4>2. PICK x, y \in Nat : x = Len(listener.pending) /\ y = Len(listener.acceptQueue)
        BY <1>3
      <4>3. x + y = (x - 1) + (y + 1)
        OBVIOUS
      <4>4. listener'.backlog = Len(listener'.pending) + Len(listener'.acceptQueue)
        BY <3>1, <4>1, <4>2, <4>3
      <4> QED
        BY <3>1, <4>1, <4>4 DEF BacklogCountsWaiting
    <3> QED
      BY <3>2 DEF BacklogCountsWaiting
  <2> QED
    BY <1>2, <2>5, <2>9, <2>10 DEF BacklogInv
<1>5. ASSUME ListenToRequest(c, serverWork[c][i].type) PROVE BacklogInv'
  <2>1. CASE UNCHANGED <<child, listener>>
    BY <2>1, SameListener DEF BacklogInv, NoneRejected
  <2>2. ASSUME NEW s \in Children, child' = WithChild(s, NewChild(c)), listener' = Listing(s),
               listener.backlog < MaxBacklog
        PROVE  BacklogInv'
    <3>1. ~NewChild(c).rejected
      BY DEF NewChild, Free
    <3>2. NoneRejected'
      BY <2>2, <3>1, OneNotRejected DEF BacklogInv
    <3>3. PICK q, b : q = Append(listener.pending, s) /\ b = listener.backlog + 1
      OBVIOUS
    <3>4. Len(q) = Len(listener.pending) + 1
      BY <1>0, <3>3, AppendRange
    <3>5. listener' = [l EXCEPT !.pending = q, !.backlog = b]
      BY <1>2, <2>2, <3>3 DEF Listing
    <3>6. /\ listener'.open = l.open /\ listener'.failed = l.failed /\ listener'.pending = q
          /\ listener'.acceptQueue = l.acceptQueue /\ listener'.backlog = b
      BY <1>2, <3>5
    <3>7. BacklogCountsWaiting'
      BY <1>0, <1>2, <1>3, <2>2, <3>3, <3>4, <3>6, HandshakeAssumption DEF BacklogInv, BacklogCountsWaiting
    <3> QED
      BY <1>2, <3>2, <3>6, <3>7 DEF BacklogInv
  <2>3. \/ UNCHANGED <<child, listener>>
        \/ /\ ~(listener.backlog >= MaxBacklog)
           /\ \E s \in Children : child' = WithChild(s, NewChild(c)) /\ listener' = Listing(s)
    BY <1>5 DEF ListenToRequest, WithChild, Listing
  <2>4. ~(listener.backlog >= MaxBacklog) => listener.backlog < MaxBacklog
    BY <1>0, HandshakeAssumption
  <2> QED
    BY <2>1, <2>2, <2>3, <2>4
<1> QED
  BY <1>1, <1>4, <1>5 DEF Pending

LEMMA BacklogIsKept ==
  ASSUME ServerInv, BacklogInv, Stages, HandshakeNext
  PROVE  BacklogInv'
<1>1. ASSUME NEW c \in Clients,
             \/ Connect(c) \/ ConnectAgain(c) \/ ConnectReturns(c) \/ CloseClient(c)
             \/ ArriveAtClient(c) \/ ClientWorks(c)
      PROVE  BacklogInv'
  <2>1. UNCHANGED <<child, listener>>
    BY <1>1 DEF Connect, ConnectAgain, ConnectReturns, CloseClient, ArriveAtClient, ClientWorks
  <2> QED
    BY <2>1, SameListener DEF BacklogInv, NoneRejected
<1>2. ASSUME NEW c \in Clients, ArriveAtServer(c) \/ ChildWorks(c) \/ ListenerWorks(c)
      PROVE  BacklogInv'
  BY <1>2, ArriveKeepsBacklog, ChildWorksKeepsBacklog, ListenerWorksKeepsBacklog DEF Stages
<1>3. ASSUME NEW s \in Children, PendingWork(s) \/ CloseAccepted(s)
      PROVE  BacklogInv'
  BY <1>3, PendingWorkKeepsBacklog, CloseAcceptedKeepsBacklog
<1>4. CASE Accept \/ CloseListener
  BY <1>4, AcceptKeepsBacklog, CloseListenerKeepsBacklog
<1> QED
  BY <1>1, <1>2, <1>3, <1>4 DEF HandshakeNext

\* With patient clients, and a listener that has no error from an earlier life, the
\* backlog of an open listener is the number of children that wait on it, and never
\* more than was asked for, whatever timers, works and accepts come first.
THEOREM PatientBacklog ==
  ASSUME Patient, "fail" \notin May
  PROVE  HandshakeSpec => []BacklogCountsWaiting
<1>1. HandshakeInit => Stages /\ BacklogInv
  <2> SUFFICES ASSUME HandshakeInit PROVE Stages /\ BacklogInv
    OBVIOUS
  <2>1. listener.pending = <<>> /\ listener.acceptQueue = <<>> /\ listener.backlog = 0 /\ ~listener.failed
    BY DEF HandshakeInit
  <2>2. Len(<<>>) = 0
    OBVIOUS
  <2>3. BacklogCountsWaiting
    BY <2>1, <2>2, HandshakeAssumption DEF BacklogCountsWaiting
  <2>4. NoneRejected
    BY DEF HandshakeInit, NoneRejected, Free
  <2> QED
    BY <2>1, <2>3, <2>4, InitStages DEF BacklogInv
<1>2. HalfOpenInv /\ Stages /\ BacklogInv /\ [HandshakeNext]_handshakeVars => Stages' /\ BacklogInv'
  <2> SUFFICES ASSUME HalfOpenInv, Stages, BacklogInv, [HandshakeNext]_handshakeVars
               PROVE  Stages' /\ BacklogInv'
    OBVIOUS
  <2>1. CASE HandshakeNext
    <3>1. ServerInv /\ (ServerStep \/ ClientStep)
      BY <2>1, StepOfASide DEF HalfOpenInv
    <3> QED
      BY <2>1, <3>1, StagesAreKept, BacklogIsKept
  <2>2. CASE UNCHANGED handshakeVars
    <3>1. BacklogInv'
      BY <2>2, SameListener DEF handshakeVars, BacklogInv, NoneRejected
    <3> QED
      BY <2>2, <3>1, StagesAreStill
  <2> QED
    BY <2>1, <2>2
<1>3. BacklogInv => BacklogCountsWaiting
  BY DEF BacklogInv
<1> QED
  BY <1>1, <1>2, <1>3, HalfOpenInvariant, PTL DEF HandshakeSpec
=============================================================================
