----------------------------- MODULE VMCIQueue -----------------------------
(***************************************************************************)
(* The ring buffer of a queue pair, vmci_queue_pair.h: offsets of the next *)
(* byte to write and to read, and the arithmetic on them.  One byte of the *)
(* ring is never used, so that equal offsets mean an empty ring.           *)
(***************************************************************************)
EXTENDS Integers, Sequences

CONSTANT QueueSize        \* produceQSize or consumeQSize

ASSUME QueueSizeAssumption == QueueSize \in Nat \ {0, 1}

Offset == 0..QueueSize - 1

\* The unsigned subtraction wraps and the addition wraps back.
AddPointer(p, add) ==
  IF p >= QueueSize - add THEN p - QueueSize + add ELSE p + add

FreeSpace(tail, head) ==
  IF tail >= head THEN QueueSize - (tail - head) - 1 ELSE head - tail - 1

BufReady(tail, head) == QueueSize - FreeSpace(tail, head) - 1

\* Mutant: the part that starts over at offset 0 is not copied.
MemcpyToQueueEnd(buffer, tail, bytes) ==
  [i \in Offset |-> IF i - tail \in 0..Len(bytes) - 1 THEN bytes[i - tail + 1] ELSE buffer[i]]

\* The ring after bytes were copied to its free part: VMCIMemcpyToQueueV, in two
\* parts when it reaches the end.
MemcpyToQueue(buffer, tail, bytes) ==
  [i \in Offset |->
     LET k == (i + QueueSize - tail) % QueueSize
     IN  IF k < Len(bytes) THEN bytes[k + 1] ELSE buffer[i]]

\* The bytes that are copied out of it: VMCIMemcpyFromQueueV.
MemcpyFromQueue(buffer, head, count) ==
  [k \in 1..count |-> buffer[(head + k - 1) % QueueSize]]
=============================================================================
