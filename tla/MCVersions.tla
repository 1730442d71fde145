------------------------------ MODULE MCVersions ------------------------------
EXTENDS Versions, TLC

CONSTANTS i1, i2, i3, v1, v2
MCDependsOn == (i1 :> {}) @@ (i2 :> {i1}) @@ (i3 :> {i2})
MCScopeOf == (v1 :> {i1, i2}) @@ (v2 :> {i3})
MCCriteria == (v1 :> <<{i2}, {i1, i2}>>) @@ (v2 :> <<{i3}>>)
=============================================================================
