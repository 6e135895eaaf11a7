----------------------------- MODULE ByteStream -----------------------------
(***************************************************************************)
(* What a connected stream promises: bytes come out in the order they went *)
(* in, none twice, none lost, and no more than Capacity are under way.     *)
(* Bytes are numbered, modulo Numbers.                                     *)
(***************************************************************************)
EXTENDS Integers, Sequences

CONSTANTS Capacity, Numbers

VARIABLES
  contents,         \* bytes under way
  next,             \* the number of the next byte
  got               \* what the last receive handed out

vars == <<contents, next, got>>

Init == contents = <<>> /\ next = 0 /\ got = <<>>

Put(n) ==
  /\ Len(contents) + n <= Capacity
  /\ contents' = contents \o [k \in 1..n |-> (next + k - 1) % Numbers]
  /\ next' = (next + n) % Numbers
  /\ UNCHANGED got

\* A receive copies the oldest bytes; unless it only peeks they are then gone.
Copy(n) ==
  /\ n <= Len(contents)
  /\ got' = SubSeq(contents, 1, n)
  /\ UNCHANGED <<contents, next>>

Remove ==
  /\ got # <<>>
  /\ got = SubSeq(contents, 1, Len(got))
  /\ contents' = SubSeq(contents, Len(got) + 1, Len(contents))
  /\ got' = <<>>
  /\ UNCHANGED next

Forget == got' = <<>> /\ UNCHANGED <<contents, next>>

Next == (\E n \in 1..Capacity : Put(n) \/ Copy(n)) \/ Remove \/ Forget

Spec == Init /\ [][Next]_vars
=============================================================================
