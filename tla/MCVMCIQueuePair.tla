-------------------------- MODULE MCVMCIQueuePair --------------------------
(***************************************************************************)
(* Instances of VMCIQueuePair for TLC: two guests and the host, one or two *)
(* handles, ids that the guests can take over from one another.            *)
(***************************************************************************)
EXTENDS VMCIQueuePair, TLC

CONSTANTS g1, g2, g3, i1, i2, h1, h2

\* h1 is named after a guest, h2 after the host.
MCHandleContext == [h \in Handle |-> IF h = h1 THEN i1 ELSE HostCid]

MCBoth == BOOLEAN
MCAlways == {TRUE}
MCNever == {FALSE}

\* Guests are interchangeable, their ids are not (h1 is named after one).
MCSymmetry == Permutations(Guest)
=============================================================================
