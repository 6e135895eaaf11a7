---------------------------- MODULE MCVMMonMemory ----------------------------
\* Instances of VMMonMemory for TLC.
EXTENDS VMMonMemory, TLC

Machine(paged, nonpaged, main, overhead, pct) ==
  [paged |-> paged, nonpaged |-> nonpaged, mainMemSize |-> main,
   perVMOverhead |-> overhead, pct |-> pct]

\* All of its memory, or half of it.
MCAdmissions == {Machine(1, 1, 1, 0, 100), Machine(2, 0, 2, 0, 50)}
MCDeltas == {<<1, 0>>, <<0, -1>>}

\* With an overhead, and with one that asks for less memory than it has.
MCOverheads == {Machine(2, 1, 2, 1, 100), Machine(2, 1, 1, 0, 50), Machine(1, 0, 2, 0, 0)}
MCNone == {}

MCMachines == Permutations(VMs)
MCSymmetry == MCMachines \cup Permutations(Frames)
=============================================================================
