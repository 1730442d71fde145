\* Commits of a rejected development, below the baseline of the next one.
CONSTANTS
    MaxIterations = 1
    Unregistered = Unregistered
    MaxRuns = 2
    MaxStops = 1
    MaxReverts = 0
SPECIFICATION Spec
INVARIANT MergedInScope
CHECK_DEADLOCK FALSE
