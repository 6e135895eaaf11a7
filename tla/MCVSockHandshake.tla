-------------------------- MODULE MCVSockHandshake --------------------------
(***************************************************************************)
(* Instances of VSockHandshake for TLC.                                    *)
(***************************************************************************)
EXTENDS VSockHandshake, TLC

MCSymmetry == Permutations(Clients) \cup Permutations(Children)
=============================================================================
