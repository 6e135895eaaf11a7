------------------------ MODULE MCVMCIWellKnownMap ------------------------
(***************************************************************************)
(* Instances of VMCIWellKnownMap for TLC.                                  *)
(***************************************************************************)
EXTENDS VMCIWellKnownMap, TLC

MCMappable == Contexts \X Handle

MCSymmetry ==
  Permutations(Threads) \cup Permutations(Contexts) \cup Permutations(Ids)
    \cup Permutations(Entry) \cup Permutations(Handle)
=============================================================================
