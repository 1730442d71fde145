------------------------------ MODULE MCPlanning ------------------------------
EXTENDS Planning, TLC

CONSTANTS i1, i2, i3
MCOrder == <<i1, i2, i3>>
MCFront == (i1 :> "DONE") @@ (i2 :> "TODO") @@ (i3 :> "TODO")
MCSizeOf == (i1 :> "M") @@ (i2 :> "S") @@ (i3 :> "L")
MCVersions == <<"v1", "v2">>
MCVersionOf == (i1 :> "v1") @@ (i2 :> "v1") @@ (i3 :> "v2")
MCMilestones == {<<"v1", "v2">>}
=============================================================================
