CONSTANTS
  q1 = q1
  q2 = q2
  Processes = {q1, q2}
  ItemOf <- OneItemEach
  Names <- TwoProviders
  Cooldown = 1
  MaxStarts <- TwoAndOne
  MaxAssigned = 10
SPECIFICATION FairSpec
INVARIANTS RetryInv
PROPERTIES RolesIsolated ProcessesEnd
CHECK_DEADLOCK FALSE
