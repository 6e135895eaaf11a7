------------------------- MODULE MCQueuePairDetach -------------------------
(***************************************************************************)
(* Instances of QueuePairDetach for TLC.                                   *)
(***************************************************************************)
EXTENDS QueuePairDetach, TLC

MCSymmetry == Permutations(Contexts) \cup Permutations(Entries)
=============================================================================
