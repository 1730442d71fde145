\* A merge may wait for an approval.
CONSTANTS
    N = 4
    Dependencies <- SmallDependencies
    Overlapping <- SmallOverlapping
    Score <- SmallScore
    Threshold = 2
    Workers = 2
    Cap = 1
    Results = {"merged", "awaiting"}
SPECIFICATION Spec
INVARIANTS
    DependenciesMerged
CHECK_DEADLOCK FALSE
