---------------------------- MODULE MCWorkspace ----------------------------
EXTENDS Workspace, TLC
CONSTANTS i1, i2
\* The branch of i2, whose library name has a hyphen, is not read as an item.
Hyphen == i1 :> i1 @@ i2 :> "other"
=============================================================================
