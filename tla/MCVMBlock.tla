----------------------------- MODULE MCVMBlock -----------------------------
(***************************************************************************)
(* Instances of VMBlock for TLC.                                           *)
(***************************************************************************)
EXTENDS VMBlock, TLC

MCSymmetry ==
  Permutations(Lookers) \cup Permutations(Threads \ Lookers) \cup Permutations(Blockers)
  \cup Permutations(Files) \cup Permutations(Slots)
=============================================================================
