--------------------------- MODULE MCVMCIContext ---------------------------
(***************************************************************************)
(* Instances of VMCIContext for TLC.  Threads and slots are interchangeable*)
(* and so are ids; what differs is what the threads may do.                *)
(***************************************************************************)
EXTENDS VMCIContext, TLC

MCAny == {"none", "restricted"}
MCNone == {"none"}

MCSymmetry ==
  Permutations(Threads) \cup Permutations(Contexts) \cup Permutations(Ids)
=============================================================================
