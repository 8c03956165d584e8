---------------------------- MODULE MCAllocate ----------------------------
(* Instances of Allocate for TLC.                                          *)
EXTENDS Allocate, TLC

CONSTANTS a1, a2, a3

\* The instance is as precise as the promises about sums need it.
ASSUME InstancePrecise == FineGrid /\ EnoughSteps

Permuted == Permutations(Agents)
=============================================================================
