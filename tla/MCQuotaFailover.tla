--------------------------- MODULE MCQuotaFailover ---------------------------
EXTENDS QuotaFailover, TLC
CONSTANTS q1, q2
OneItemEach == q1 :> "BL-1" @@ q2 :> "BL-2"
SameItem == q1 :> "BL-1" @@ q2 :> "BL-1"
TwoAndOne == q1 :> 2 @@ q2 :> 1
OneEach == q1 :> 1 @@ q2 :> 1
ThreeProviders == <<"claude", "codex", "cursor">>
TwoProviders == <<"claude", "codex">>
=============================================================================
