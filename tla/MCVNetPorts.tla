---------------------------- MODULE MCVNetPorts ----------------------------
(***************************************************************************)
(* Instances of VNetPorts for TLC.                                         *)
(***************************************************************************)
EXTENDS VNetPorts, TLC

MCSymmetry == Permutations(Files) \cup Permutations(Ports) \cup Permutations(Hubs)
                \cup Permutations(Numbers)
=============================================================================
