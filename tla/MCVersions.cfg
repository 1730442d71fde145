SPECIFICATION Spec
CONSTANTS
  i1 = i1
  i2 = i2
  i3 = i3
  v1 = v1
  v2 = v2
  Library = Library
  Items = {i1, i2, i3}
  Released = {v1, v2}
  DependsOn <- MCDependsOn
  ScopeOf <- MCScopeOf
  Criteria <- MCCriteria
  TrustLevel = "L1"
  SafeMode = TRUE
  Revertable = {i1}
  Astray = {i3}
  MaxOps = 2
  MaxMoves = 1
INVARIANTS
  ApprovalInv
  DependentsReopened
  ReleaseCovers
  RepairSettles
CHECK_DEADLOCK FALSE
