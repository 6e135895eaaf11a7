---------------------------- MODULE VSockNotify ----------------------------
(***************************************************************************)
(* One direction of a connected vsock stream: VSockVmciStreamSendmsg at    *)
(* one end, VSockVmciStreamRecvmsg at the other, poll at both, the queue   *)
(* between them, and the protocol of linux/notify.c by which an end that   *)
(* blocks asks the other one to tell it of data or of space.               *)
(*                                                                         *)
(* Control packets are datagrams: WAITING_READ and READ to the sender's    *)
(* socket, WROTE and WAITING_WRITE to the receiver's.  A packet that finds *)
(* the socket locked is put off to a work queue, where it may fall behind  *)
(* later ones, so packets to a socket are in no order.  Datagrams are not  *)
(* lost.  The ends share only the memory of the queue: a step reads or     *)
(* writes one offset of the other end.                                     *)
(*                                                                         *)
(* The offset and generation that a waiting end sends along are not        *)
(* looked at by the other one and are left out, as are shutdown and reset. *)
(***************************************************************************)
EXTENDS VMCIQueue

CONSTANTS
  PageSize,         \* PAGE_SIZE
  Word,             \* 2^64: unsigned arithmetic is modulo Word
  Numbers,          \* bytes are numbered modulo Numbers
  MaxSend,          \* bytes in one send
  HasteFor          \* targets with which a receive may be made that does not wait

ASSUME NotifyAssumption ==
  /\ PageSize \in Nat \ {0, 1}
  /\ Word \in Nat /\ Word > QueueSize + PageSize
  /\ Numbers \in Nat \ {0} /\ MaxSend \in Nat \ {0}
  /\ HasteFor \subseteq Nat

VARIABLES
  ring,             \* buffer, producerTail, consumerHead
  sender,           \* the call that is made on the sending socket
  reader,           \* the call that is made on the receiving socket
  writeSide,        \* VSockVmciNotify of the sending socket, this direction
  readSide,         \* VSockVmciNotify of the receiving socket, this direction
  packets,          \* how many of each kind are under way
  sent              \* the number of the next byte to be sent

vars == <<ring, sender, reader, writeSide, readSide, packets, sent>>

-----------------------------------------------------------------------------
Kinds == {"WAITING_READ", "READ", "WROTE", "WAITING_WRITE"}

\* Where the call is: it holds the lock of its socket except when it sleeps.
SenderPc == {"idle", "check", "block", "asleep", "copy", "publish", "post"}
ReaderPc == {"idle", "try", "check", "block", "asleep", "copy", "advance", "post"}

NoSend == [pc |-> "idle", want |-> 0, count |-> 0]      \* a poll wants no bytes
NoRecv == [pc |-> "idle", kind |-> "recv", target |-> 0, len |-> 0,
           notifyOnBlock |-> FALSE, got |-> <<>>]

Init ==
  /\ ring = [buffer |-> [i \in Offset |-> 0], tail |-> 0, head |-> 0]
  /\ sender = NoSend
  /\ reader = NoRecv
  /\ writeSide = [sentWaitingWrite |-> FALSE, peerWaitingRead |-> FALSE]
  /\ readSide = [sentWaitingRead |-> FALSE, peerWaitingWrite |-> FALSE,
                 peerWaitingWriteDetected |-> FALSE,
                 writeNotifyWindow |-> QueueSize, writeNotifyMinWindow |-> PageSize]
  /\ packets = [k \in Kinds |-> 0]
  /\ sent = 0

Space == FreeSpace(ring.tail, ring.head)
Ready == BufReady(ring.tail, ring.head)

Send(kind) == packets' = [packets EXCEPT ![kind] = @ + 1]

SenderUnlocked == sender.pc \in {"idle", "asleep"}
ReaderUnlocked == reader.pc \in {"idle", "asleep"}

SenderGoto(pc) == sender' = [sender EXCEPT !.pc = pc]
ReaderGoto(pc) == reader' = [reader EXCEPT !.pc = pc]

-----------------------------------------------------------------------------
(* The sending end *)

\* VSockVmciStreamSendmsg of n bytes, or VSockVmciPoll for space.
StartSend(n) ==
  /\ sender.pc = "idle"
  /\ sender' = [pc |-> "check", want |-> n, count |-> 0]
  /\ UNCHANGED <<ring, reader, writeSide, readSide, packets, sent>>

CheckSpace ==
  /\ sender.pc = "check"
  /\ SenderGoto(IF Space = 0 THEN "block" ELSE "copy")
  /\ UNCHANGED <<ring, reader, writeSide, readSide, packets, sent>>

\* Mutant: every block says that it waits.
SendPreBlockAlways ==
  /\ sender.pc = "block"
  /\ Send("WAITING_WRITE")
  /\ writeSide' = [writeSide EXCEPT !.sentWaitingWrite = TRUE]
  /\ SenderGoto("asleep")
  /\ UNCHANGED <<ring, reader, readSide, sent>>

\* VSockVmciSendWaitingWrite, then schedule_timeout.
SendPreBlock ==
  /\ sender.pc = "block"
  /\ IF writeSide.sentWaitingWrite
     THEN UNCHANGED <<writeSide, packets>>
     ELSE /\ Send("WAITING_WRITE")
          /\ writeSide' = [writeSide EXCEPT !.sentWaitingWrite = TRUE]
  /\ SenderGoto("asleep")
  /\ UNCHANGED <<ring, reader, readSide, sent>>

\* A send that does not wait returns at once when there is no space; the sleep
\* of a send or a poll may end with a signal or a timeout.
SenderGivesUp ==
  /\ \/ sender.pc = "block" /\ sender.want > 0
     \/ sender.pc = "asleep"
  /\ sender' = NoSend
  /\ UNCHANGED <<ring, reader, writeSide, readSide, packets, sent>>

\* A poll that finds space is over.
PollOutReady ==
  /\ sender.pc = "copy" /\ sender.want = 0
  /\ sender' = NoSend
  /\ UNCHANGED <<ring, reader, writeSide, readSide, packets, sent>>

\* VMCIQueue_EnqueueV, in two steps: the bytes are copied, then the tail moves.
Enqueue ==
  /\ sender.pc = "copy" /\ sender.want > 0
  /\ LET n == IF Space < sender.want THEN Space ELSE sender.want
     IN  /\ ring' = [ring EXCEPT !.buffer = MemcpyToQueue(@, ring.tail,
                                              [k \in 1..n |-> (sent + k - 1) % Numbers])]
         /\ sender' = [sender EXCEPT !.pc = "publish", !.count = n]
  /\ UNCHANGED <<reader, writeSide, readSide, packets, sent>>

Publish ==
  /\ sender.pc = "publish"
  /\ ring' = [ring EXCEPT !.tail = AddPointer(@, sender.count)]
  /\ sent' = (sent + sender.count) % Numbers
  /\ sender' = [sender EXCEPT !.pc = "post", !.want = @ - sender.count, !.count = 0]
  /\ UNCHANGED <<reader, writeSide, readSide, packets>>

\* VSockVmciNotifyWaitingRead, when a reader may be waiting.
NotifyReader(peerWaitingRead) ==
  IF peerWaitingRead /\ Ready > 0
  THEN /\ Send("WROTE")
       /\ writeSide' = [writeSide EXCEPT !.peerWaitingRead = FALSE]
  ELSE /\ UNCHANGED packets
       /\ writeSide' = [writeSide EXCEPT !.peerWaitingRead = peerWaitingRead]

SendPostEnqueue ==
  /\ sender.pc = "post"
  /\ NotifyReader(writeSide.peerWaitingRead)
  /\ sender' = IF sender.want = 0 THEN NoSend ELSE [sender EXCEPT !.pc = "check"]
  /\ UNCHANGED <<ring, reader, readSide, sent>>

HandleWaitingRead ==
  /\ SenderUnlocked
  /\ packets["WAITING_READ"] > 0
  /\ IF Ready > 0
     THEN /\ packets' = [packets EXCEPT !["WAITING_READ"] = @ - 1, !["WROTE"] = @ + 1]
          /\ UNCHANGED writeSide
     ELSE /\ packets' = [packets EXCEPT !["WAITING_READ"] = @ - 1]
          /\ writeSide' = [writeSide EXCEPT !.peerWaitingRead = TRUE]
  /\ UNCHANGED <<ring, sender, reader, readSide, sent>>

HandleRead ==
  /\ SenderUnlocked
  /\ packets["READ"] > 0
  /\ packets' = [packets EXCEPT !["READ"] = @ - 1]
  /\ writeSide' = [writeSide EXCEPT !.sentWaitingWrite = FALSE]
  /\ sender' = IF sender.pc = "asleep" THEN [sender EXCEPT !.pc = "check"] ELSE sender
  /\ UNCHANGED <<ring, reader, readSide, sent>>

-----------------------------------------------------------------------------
(* The receiving end *)

\* Mutant: the sender is not told of the larger window.
RecvInitQuiet(target) ==
  LET min == IF readSide.writeNotifyMinWindow < target + 1 THEN target + 1
             ELSE readSide.writeNotifyMinWindow
  IN  [side |-> [readSide EXCEPT !.writeNotifyMinWindow = min,
                                 !.writeNotifyWindow = IF @ < min THEN min ELSE @],
       notifyOnBlock |-> FALSE]

\* VSockVmciNotifyPktRecvInit: the smallest window has to leave room for the
\* bytes that this receive wants to be there.
RecvInit(target) ==
  LET min == target + 1
      raised == readSide.writeNotifyMinWindow < min
      widened == raised /\ readSide.writeNotifyWindow < min
  IN  [side |-> [readSide EXCEPT !.writeNotifyMinWindow = IF raised THEN min ELSE @,
                                 !.writeNotifyWindow = IF widened THEN min ELSE @],
       notifyOnBlock |-> widened]

\* VSockVmciStreamRecvmsg; target < consumeSize.
StartRecv(kind, target, len, wait) ==
  LET init == RecvInit(target)
  IN  /\ reader.pc = "idle"
      /\ target <= len
      /\ wait \/ target \in HasteFor
      /\ readSide' = init.side
      /\ reader' = [pc |-> IF wait THEN "check" ELSE "try", kind |-> kind, target |-> target,
                    len |-> len, notifyOnBlock |-> init.notifyOnBlock, got |-> <<>>]
      /\ UNCHANGED <<ring, sender, writeSide, packets, sent>>

\* VSockVmciPoll for data: VSockVmciNotifyPktPollIn.
StartPoll ==
  /\ reader.pc = "idle"
  /\ reader' = [NoRecv EXCEPT !.pc = "check", !.kind = "poll", !.target = 1]
  /\ UNCHANGED <<ring, sender, writeSide, readSide, packets, sent>>

CheckData ==
  /\ reader.pc \in {"try", "check"}
  /\ reader' =
       CASE Ready < reader.target /\ reader.pc = "check" -> [reader EXCEPT !.pc = "block"]
         [] Ready < reader.target /\ reader.pc = "try" -> NoRecv
         [] Ready >= reader.target /\ reader.kind = "poll" -> NoRecv
         [] OTHER -> [reader EXCEPT !.pc = "copy", !.target = 0, !.notifyOnBlock = FALSE]
  /\ UNCHANGED <<ring, sender, writeSide, readSide, packets, sent>>

\* VSockVmciSendWaitingRead makes the window larger when it sends.
WidenWindow(side) ==
  LET w == side.writeNotifyWindow
  IN  IF w < QueueSize
      THEN [side EXCEPT !.writeNotifyWindow =
              IF w + PageSize < QueueSize THEN w + PageSize ELSE QueueSize]
      ELSE side

\* Mutant: the window shrinks past the smallest one.
ShrinkWindowUnbounded(side) ==
  IF side.peerWaitingWriteDetected THEN side
  ELSE [side EXCEPT !.peerWaitingWriteDetected = TRUE,
                    !.writeNotifyWindow = (@ + Word - PageSize) % Word]

\* VSockVmciNotifyWaitingWrite, when a writer is waiting: it is held up until
\* fewer than the window's bytes are left, and holding it up once shrinks the
\* window.
ShrinkWindow(side) ==
  LET w == (side.writeNotifyWindow + Word - PageSize) % Word
  IN  IF side.peerWaitingWriteDetected THEN side
      ELSE [side EXCEPT !.peerWaitingWriteDetected = TRUE,
                        !.writeNotifyWindow = IF w < side.writeNotifyMinWindow
                                              THEN side.writeNotifyMinWindow ELSE w]

NotifyLimit(side) == (QueueSize + Word - side.writeNotifyWindow) % Word

\* The receiving socket after it looked for a writer to notify, and whether
\* it sends READ.
NotifyWriter(side) ==
  IF ~side.peerWaitingWrite THEN [side |-> side, read |-> FALSE]
  ELSE LET s == ShrinkWindow(side)
       IN  IF Space > NotifyLimit(s)
           THEN [side |-> [s EXCEPT !.peerWaitingWriteDetected = FALSE,
                                    !.peerWaitingWrite = FALSE], read |-> TRUE]
           ELSE [side |-> s, read |-> FALSE]

Sent(waitingRead, read) ==
  [packets EXCEPT !["WAITING_READ"] = IF waitingRead THEN @ + 1 ELSE @,
                  !["READ"] = IF read THEN @ + 1 ELSE @]

RecvPreBlock ==
  LET first == ~readSide.sentWaitingRead
      waiting == IF first THEN [WidenWindow(readSide) EXCEPT !.sentWaitingRead = TRUE]
                 ELSE readSide
      notified == IF reader.notifyOnBlock THEN NotifyWriter(waiting)
                  ELSE [side |-> waiting, read |-> FALSE]
  IN  /\ reader.pc = "block"
      /\ packets' = Sent(first, notified.read)
      /\ readSide' = notified.side
      /\ reader' = [reader EXCEPT !.pc = "asleep", !.notifyOnBlock = FALSE]
      /\ UNCHANGED <<ring, sender, writeSide, sent>>

\* A signal or a timeout.
ReaderGivesUp ==
  /\ reader.pc = "asleep"
  /\ reader' = NoRecv
  /\ UNCHANGED <<ring, sender, writeSide, readSide, packets, sent>>

\* VMCIQueue_DequeueV, in two steps: the bytes are copied, then the head
\* moves.  VMCIQueue_PeekV leaves the head alone.
Dequeue ==
  /\ reader.pc = "copy"
  /\ LET n == IF Ready < reader.len THEN Ready ELSE reader.len
     IN  reader' = [reader EXCEPT !.pc = IF reader.kind = "peek" THEN "post" ELSE "advance",
                                  !.len = 0,
                                  !.got = MemcpyFromQueue(ring.buffer, ring.head, n)]
  /\ UNCHANGED <<ring, sender, writeSide, readSide, packets, sent>>

Advance ==
  /\ reader.pc = "advance"
  /\ ring' = [ring EXCEPT !.head = AddPointer(@, Len(reader.got))]
  /\ reader' = [reader EXCEPT !.pc = "post", !.got = <<>>]
  /\ UNCHANGED <<sender, writeSide, readSide, packets, sent>>

\* VSockVmciNotifyPktRecvPostDequeue
RecvPostDequeue ==
  LET notified == IF reader.kind = "peek" THEN [side |-> readSide, read |-> FALSE]
                  ELSE NotifyWriter(readSide)
  IN  /\ reader.pc = "post"
      /\ packets' = Sent(FALSE, notified.read)
      /\ readSide' = notified.side
      /\ reader' = NoRecv
      /\ UNCHANGED <<ring, sender, writeSide, sent>>

HandleWrote ==
  /\ ReaderUnlocked
  /\ packets["WROTE"] > 0
  /\ packets' = [packets EXCEPT !["WROTE"] = @ - 1]
  /\ readSide' = [readSide EXCEPT !.sentWaitingRead = FALSE]
  /\ reader' = IF reader.pc = "asleep" THEN [reader EXCEPT !.pc = "check"] ELSE reader
  /\ UNCHANGED <<ring, sender, writeSide, sent>>

HandleWaitingWrite ==
  LET notified == NotifyWriter([readSide EXCEPT !.peerWaitingWrite = TRUE])
  IN  /\ ReaderUnlocked
      /\ packets["WAITING_WRITE"] > 0
      /\ packets' = [Sent(FALSE, notified.read) EXCEPT !["WAITING_WRITE"] = @ - 1]
      /\ readSide' = notified.side
      /\ UNCHANGED <<ring, sender, reader, writeSide, sent>>

-----------------------------------------------------------------------------
SenderRuns ==
  CheckSpace \/ SendPreBlock \/ PollOutReady \/ Enqueue \/ Publish \/ SendPostEnqueue
ReaderRuns == CheckData \/ RecvPreBlock \/ Dequeue \/ Advance \/ RecvPostDequeue

Next ==
  \/ \E n \in 0..MaxSend : StartSend(n)
  \/ \E kind \in {"recv", "peek"}, target, len \in 1..QueueSize - 1, wait \in BOOLEAN :
       StartRecv(kind, target, len, wait)
  \/ StartPoll
  \/ SenderGivesUp \/ ReaderGivesUp
  \/ SenderRuns \/ ReaderRuns
  \/ HandleWaitingRead \/ HandleRead \/ HandleWrote \/ HandleWaitingWrite

\* A thread that does not sleep runs.  A packet is handled although its socket
\* may be locked again and again: the work queue waits for the lock.
Fairness ==
  /\ WF_vars(SenderRuns) /\ WF_vars(ReaderRuns)
  /\ SF_vars(HandleWaitingRead) /\ SF_vars(HandleRead)
  /\ SF_vars(HandleWrote) /\ SF_vars(HandleWaitingWrite)

Spec == Init /\ [][Next]_vars
FairSpec == Spec /\ Fairness

-----------------------------------------------------------------------------
(* Properties *)

\* Type invariant.
TypeOK ==
  /\ ring \in [buffer : [Offset -> 0..Numbers - 1], tail : Offset, head : Offset]
  /\ sender \in [pc : SenderPc, want : 0..MaxSend, count : 0..QueueSize - 1]
  /\ reader \in [pc : ReaderPc, kind : {"recv", "peek", "poll"},
                 target : 0..QueueSize - 1, len : 0..QueueSize - 1,
                 notifyOnBlock : BOOLEAN, got : Seq(0..Numbers - 1)]
  /\ writeSide \in [sentWaitingWrite : BOOLEAN, peerWaitingRead : BOOLEAN]
  /\ readSide \in [sentWaitingRead : BOOLEAN, peerWaitingWrite : BOOLEAN,
                   peerWaitingWriteDetected : BOOLEAN,
                   writeNotifyWindow : 0..Word - 1, writeNotifyMinWindow : 0..Word - 1]
  /\ packets \in [Kinds -> Nat]
  /\ sent \in 0..Numbers - 1

One(b) == IF b THEN 1 ELSE 0

\* An end that has said that it waits is answered exactly once before it says
\* so again, however calls end and packets are put off: the request is under
\* way, or noted by the peer, or its answer is under way.
WaitsAreAnsweredOnce ==
  /\ packets["WAITING_READ"] + One(writeSide.peerWaitingRead) + packets["WROTE"]
       = One(readSide.sentWaitingRead)
  /\ packets["WAITING_WRITE"] + One(readSide.peerWaitingWrite) + packets["READ"]
       = One(writeSide.sentWaitingWrite)

\* A sender that waits is held up by the window alone: a window's bytes are
\* left to be read, less the one that the ring does not use (notify.c: "if
\* writeNotifyWindow > bufferReady then notify").  Receives that raise the
\* window before they block, and waits that raise it again, keep this so.
HeldUpByWindow ==
  (/\ readSide.peerWaitingWrite
   /\ ReaderUnlocked
   /\ ~reader.notifyOnBlock) =>
     Ready + 1 >= readSide.writeNotifyWindow

\* The stream implements the abstract one, although either end moves its own
\* offset while the other one copies.
Stream == INSTANCE ByteStream WITH
  Capacity <- QueueSize - 1,
  contents <- MemcpyFromQueue(ring.buffer, ring.head, Ready),
  next <- sent,
  got <- reader.got

ImplementsStream == Stream!Spec

\* A receive whose bytes are there returns.
ReaderReturns ==
  (reader.pc # "idle" /\ Ready >= reader.target) ~> reader.pc = "idle"

\* When one end sends while the other one receives, one of them returns: they
\* never wait for each other, however the window holds the sender up ("we need
\* to send a notification to the sender before we block").
OneReturns ==
  (sender.pc # "idle" /\ reader.pc # "idle") ~> (sender.pc = "idle" \/ reader.pc = "idle")
=============================================================================
