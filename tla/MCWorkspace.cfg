CONSTANTS
  i1 = i1
  i2 = i2
  Items = {i1, i2}
  NamedBy <- Hyphen
  Alone = TRUE
  MaxRuns = 2
  MaxOps = 3
SPECIFICATION Spec
INVARIANTS RegistryInv TreesSettled
PROPERTIES WorkKept ActiveTreeKept
CHECK_DEADLOCK FALSE
