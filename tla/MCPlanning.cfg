SPECIFICATION PlanningSpec
CONSTANTS
  i1 = i1
  i2 = i2
  i3 = i3
  Order <- MCOrder
  Front <- MCFront
  SizeOf <- MCSizeOf
  VersionOf <- MCVersionOf
  Versions <- MCVersions
  Milestones <- MCMilestones
  MaxPlans = 2
  MaxMoves = 1
INVARIANTS
  WavesInv
  CriticalPathIsLongest
CHECK_DEADLOCK FALSE
