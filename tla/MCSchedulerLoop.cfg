\* Five items on two workers, one slot of the provider, any result of a run.
CONSTANTS
    N = 5
    Dependencies <- SmallDependencies
    Overlapping <- SmallOverlapping
    Score <- SmallScore
    Threshold = 2
    Workers = 2
    Cap = 1
    Results = {"merged", "blocked", "awaiting", "error", "merged_exhausted"}
SPECIFICATION Spec
INVARIANTS
    TypeOK
    DependenciesMergedOrHeld
    ScopesSerialised
    WithinCeilings
    AssignedOnce
    NoWorkerOutlives
    NothingReadyIsLeft
PROPERTIES
    PoolTerminates
CHECK_DEADLOCK FALSE
