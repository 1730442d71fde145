--------------------------- MODULE MCSchedulerLoop ---------------------------
(***************************************************************************)
(* A small backlog: 3 depends on 2 and the last item on 1 and 3, 2 and 4   *)
(* share a scope, the last item has a low score.  Up to three items can    *)
(* compete for the workers.                                                *)
(***************************************************************************)
EXTENDS SchedulerLoop

SmallDependencies ==
    [b \in Items |-> CASE b = 3 -> {2} [] b = 5 -> {1, 3} [] OTHER -> {}]

SmallOverlapping == {{2, 4}}

SmallScore == [b \in Items |-> IF b = 5 THEN 1 ELSE 3]
=============================================================================
