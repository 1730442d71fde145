--------------------------- MODULE MCBlStateMachine --------------------------
(***************************************************************************)
(* The state machine for TLC: two processes, symmetric, on one item.       *)
(***************************************************************************)
EXTENDS BlStateMachine, TLC

CallerSymmetry == Permutations(Callers)
=============================================================================
