------------------------------ MODULE FileGate ------------------------------
(***************************************************************************)
(* What vmblock promises to the one who blocks a name and to those who look*)
(* it up (linux/block.c: "All calls to BlockWaitOnFile() with the same     *)
(* filename will not return until BlockRemoveFileBlock() is called"): a    *)
(* waiter returns only after the very block that it found was lifted, and  *)
(* a block outlives its waiters.                                           *)
(***************************************************************************)
CONSTANTS Waiter, Block, Name, NoBlock, NoName

VARIABLES
  gate,             \* [Block -> {"absent", "shut", "lifted"}]
  name,             \* [Block -> Name]: what a shut gate blocks
  waitsFor          \* [Waiter -> Block \cup {NoBlock}]

vars == <<gate, name, waitsFor>>

Init ==
  /\ gate = [b \in Block |-> "absent"]
  /\ name = [b \in Block |-> NoName]
  /\ waitsFor = [w \in Waiter |-> NoBlock]

\* One block per name at a time.
Shut(b, n) ==
  /\ gate[b] = "absent"
  /\ \A c \in Block : gate[c] = "shut" => name[c] # n
  /\ gate' = [gate EXCEPT ![b] = "shut"]
  /\ name' = [name EXCEPT ![b] = n]
  /\ UNCHANGED waitsFor

Lift(b) ==
  /\ gate[b] = "shut"
  /\ gate' = [gate EXCEPT ![b] = "lifted"]
  /\ name' = [name EXCEPT ![b] = NoName]
  /\ UNCHANGED waitsFor

Wait(w, b) ==
  /\ waitsFor[w] = NoBlock
  /\ gate[b] = "shut"
  /\ waitsFor' = [waitsFor EXCEPT ![w] = b]
  /\ UNCHANGED <<gate, name>>

Pass(w) ==
  /\ waitsFor[w] # NoBlock
  /\ gate[waitsFor[w]] = "lifted"
  /\ waitsFor' = [waitsFor EXCEPT ![w] = NoBlock]
  /\ UNCHANGED <<gate, name>>

Remove(b) ==
  /\ gate[b] = "lifted"
  /\ \A w \in Waiter : waitsFor[w] # b
  /\ gate' = [gate EXCEPT ![b] = "absent"]
  /\ UNCHANGED <<name, waitsFor>>

Next ==
  \/ \E b \in Block : Lift(b) \/ Remove(b) \/ \E n \in Name : Shut(b, n)
  \/ \E w \in Waiter : Pass(w) \/ \E b \in Block : Wait(w, b)

Spec == Init /\ [][Next]_vars
=============================================================================
