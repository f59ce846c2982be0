----------------------------- MODULE MCPodStatus ----------------------------
(***************************************************************************)
(* Constants for the model checking of PodStatus.                          *)
(***************************************************************************)
EXTENDS PodStatus, TLC

CONSTANTS c1, c2

Symmetry == Permutations(Containers)
=============================================================================
