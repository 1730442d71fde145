------------------------ MODULE MCSequentialExecutor -------------------------
(***************************************************************************)
(* The executor for TLC.  The bounds are in the configurations.            *)
(***************************************************************************)
EXTENDS SequentialExecutor
=============================================================================
