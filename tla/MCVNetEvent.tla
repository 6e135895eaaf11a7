---------------------------- MODULE MCVNetEvent ----------------------------
(***************************************************************************)
(* Instances of VNetEvent for TLC.                                         *)
(***************************************************************************)
EXTENDS VNetEvent, TLC

MCSymmetry == Permutations(Senders) \cup Permutations(Listeners) \cup Permutations(Readers)
=============================================================================
